---- MODULE Spec2Model ----
(***************************************************************************)
(* Verification model of the pension-fund valuation and hedging library:   *)
(* Pricer (pensionfund/pricer.py and pensionfund/utils/pricer.py), Bond,   *)
(* Hedging and FundingRatioAnalysis.                                       *)
(*                                                                         *)
(* Numbers.  The program computes on Python floats.  A float is a rational *)
(* number, and every arithmetic operation returns the exact rational       *)
(* result rounded to the significand of the format.  The model keeps the   *)
(* exact rational (numerator and denominator as unbounded naturals, held   *)
(* as digit sequences) and rounds it to `prec` significant bits after      *)
(* every operation.  prec = 0 is the arithmetic without rounding, in which *)
(* the closed formulas of the library are read; prec > 0 is a binary       *)
(* floating-point format with a prec-bit significand and round-half-even.  *)
(* The exponent of the format is not bounded: no operation overflows or    *)
(* underflows, and inf and nan arise only from a division by zero.         *)
(***************************************************************************)
EXTENDS Integers, Sequences, FiniteSets, TLC

VARIABLES
    prec,      \* significand width of the arithmetic (0: no rounding)
    pricer,    \* the Pricer object under call, or NoObject
    hedging,   \* the Hedging object under call, or NoObject
    bond,      \* the Bond object under call, or NoObject
    funding,   \* the FundingRatioAnalysis object under call, or NoObject
    ret        \* the last call: operation, arguments, returned value or raised error

vars == <<prec, pricer, hedging, bond, funding, ret>>

NoObject == [class |-> "None"]
NoCall == [op |-> "none"]

-----------------------------------------------------------------------------
(* Naturals of unbounded size: little-endian digit sequences, no leading   *)
(* zero digit, << >> is zero.                                              *)

Base == 2 ^ 15

\* Call by value is written CHOOSE val \in {e : x \in {a}} : TRUE, which is e
\* with x bound to the value of a: a is evaluated once, before e.

NDigit(a, i) == IF i <= Len(a) THEN a[i] ELSE 0

NRest(a) == IF a = << >> THEN << >> ELSE Tail(a)

\* the digits of a up to its highest non-zero digit
NTrimOf(a) ==
    IF a = << >> THEN a
    ELSE IF a[Len(a)] # 0 THEN a
    ELSE SubSeq(a, 1, CHOOSE n \in 0..Len(a) :
                          /\ n = 0 \/ a[n] # 0
                          /\ \A i \in (n + 1)..Len(a) : a[i] = 0)

NTrim(a) == (CHOOSE val \in {NTrimOf(x1) : x1 \in {a}} : TRUE)

RECURSIVE NOfInt(_)
NOfIntOf(n) == IF n = 0 THEN << >> ELSE <<n % Base>> \o NOfInt(n \div Base)

NOfInt(n) == (CHOOSE val \in {NOfIntOf(x1) : x1 \in {n}} : TRUE)

RECURSIVE NToInt(_)
NToIntOf(a) == IF a = << >> THEN 0 ELSE a[1] + Base * NToInt(Tail(a))

NToInt(a) == (CHOOSE val \in {NToIntOf(x1) : x1 \in {a}} : TRUE)

\* The digit loops below are written position by position: the carry into a
\* position is decided by the nearest lower position that does not pass a
\* carry on.

\* the function f on 1..n as a tuple
Tuple(f) == f \o << >>

\* f[lo] + ... + f[hi]
RECURSIVE SumOver(_, _, _)
SumOver(f, lo, hi) ==
    IF lo > hi THEN 0
    ELSE IF lo = hi THEN f[lo]
    ELSE SumOver(f, lo, (lo + hi) \div 2) + SumOver(f, (lo + hi) \div 2 + 1, hi)

\* the highest position below i where s is not pass, 0 when there is none
LastBelow(s, pass, i) ==
    IF i > 1 /\ s[i - 1] # pass THEN i - 1
    ELSE IF \A j \in 1..(i - 1) : s[j] = pass THEN 0
    ELSE CHOOSE j \in 1..(i - 1) : s[j] # pass /\ \A k \in (j + 1)..(i - 1) : s[k] = pass

\* the carry into position i of the digit sums s, c the carry into position 1
CarryInto(s, c, i) ==
    (CHOOSE val \in {IF j = 0 THEN c ELSE IF s[j] >= Base THEN 1 ELSE 0 :
        j \in {LastBelow(s, Base - 1, i)}} : TRUE)

\* the digits of the digit sums s with the carry c (0 or 1) into position 1
Carried(s, c) ==
    (CHOOSE val \in {     IF top = 0 THEN d ELSE Append(d, top) :
        d \in {Tuple([i \in 1..Len(s) |-> (s[i] + CarryInto(s, c, i)) % Base])}, top \in {CarryInto(s, c, Len(s) + 1)}} : TRUE)

\* a + b + c for a carry c of 0 or 1
NAddCOf(a, b, c) ==
    IF a = << >> /\ b = << >> THEN NOfInt(c)
    ELSE Carried(Tuple([i \in 1..(IF Len(a) < Len(b) THEN Len(b) ELSE Len(a)) |->
                            NDigit(a, i) + NDigit(b, i)]), c)

NAddC(a, b, c) == (CHOOSE val \in {NAddCOf(x1, x2, x3) : x1 \in {a}, x2 \in {b}, x3 \in {c}} : TRUE)

NAdd(a, b) == NAddC(a, b, 0)

\* -1, 0, 1 by the highest digit in which a and b of one length differ
NCmpOf(a, b) ==
    IF Len(a) # Len(b) THEN (IF Len(a) < Len(b) THEN -1 ELSE 1)
    ELSE IF a = b THEN 0
    ELSE (CHOOSE val \in {IF a[i] < b[i] THEN -1 ELSE 1 :
        i \in {CHOOSE i \in 1..Len(a) :
                   a[i] # b[i] /\ \A j \in (i + 1)..Len(a) : a[j] = b[j]}} : TRUE)

NCmp(a, b) == (CHOOSE val \in {NCmpOf(x1, x2) : x1 \in {a}, x2 \in {b}} : TRUE)

\* the borrow from position i of the digit differences s
BorrowFrom(s, i) ==
    (CHOOSE val \in {IF j # 0 /\ s[j] < 0 THEN 1 ELSE 0 :
        j \in {LastBelow(s, 0, i)}} : TRUE)

\* the digits of the digit differences s of a number and one not above it
Borrowed(s) == Tuple([i \in 1..Len(s) |-> (s[i] - BorrowFrom(s, i) + Base) % Base])

NSubOf(a, b) ==
    IF a = << >> THEN << >>
    ELSE NTrim(Borrowed(Tuple([i \in 1..Len(a) |-> a[i] - NDigit(b, i)])))

\* a - b for a >= b
NSub(a, b) == (CHOOSE val \in {NSubOf(x1, x2) : x1 \in {a}, x2 \in {b}} : TRUE)

\* the low digits of the column totals t, plus their high digits one position up
Columns(t) ==
    NTrim(NAddC(Tuple([k \in 1..Len(t) |-> t[k] % Base]),
                <<0>> \o Tuple([k \in 1..Len(t) |-> t[k] \div Base]), 0))

\* a * d + c for a digit d and a carry c of 0 or 1
NMulDOf(a, d, c) ==
    IF a = << >> THEN NOfInt(c)
    ELSE (CHOOSE val \in {IF c = 0 THEN p ELSE NAddC(p, << >>, c) :
        p \in {Columns(Tuple([i \in 1..Len(a) |-> a[i] * d]))}} : TRUE)

NMulD(a, d, c) == (CHOOSE val \in {NMulDOf(x1, x2, x3) : x1 \in {a}, x2 \in {d}, x3 \in {c}} : TRUE)

\* what a[i] * b[j] adds to column k: its low digit to column i + j - 1,
\* its high digit to column i + j
InColumn(a, b, i, k) ==
    (IF k + 1 - i \in 1..Len(b) THEN (a[i] * b[k + 1 - i]) % Base ELSE 0)
        + (IF k - i \in 1..Len(b) THEN (a[i] * b[k - i]) \div Base ELSE 0)

NMulOf(a, b) ==
    IF a = << >> \/ b = << >> THEN << >>
    ELSE Columns(Tuple([k \in 1..(Len(a) + Len(b)) |->
                            SumOver([i \in 1..Len(a) |-> InColumn(a, b, i, k)], 1, Len(a))]))

NMul(a, b) == (CHOOSE val \in {NMulOf(x1, x2) : x1 \in {a}, x2 \in {b}} : TRUE)

-----------------------------------------------------------------------------
(* Rationals: sign, numerator, positive denominator.  Values are compared  *)
(* by cross-multiplication (QCmp), never by their representation.          *)

Rat(n, d) ==
    [neg |-> n < 0, num |-> NOfInt(IF n < 0 THEN -n ELSE n), den |-> NOfInt(d)]

QZero == Rat(0, 1)
QOne == Rat(1, 1)

QIsZero(a) == a.num = << >>

QNeg(a) == IF QIsZero(a) THEN a ELSE [a EXCEPT !.neg = ~a.neg]

QAbs(a) == [a EXCEPT !.neg = FALSE]

\* signed sum of two numerators over one denominator
QSumOf(an, n1, bn, n2, d) ==
    IF an = bn THEN [neg |-> an /\ (n1 # << >> \/ n2 # << >>), num |-> NAdd(n1, n2), den |-> d]
    ELSE (CHOOSE val \in {
                   IF c = 0 THEN [neg |-> FALSE, num |-> << >>, den |-> d]
                   ELSE IF c > 0 THEN [neg |-> an, num |-> NSub(n1, n2), den |-> d]
                   ELSE [neg |-> bn, num |-> NSub(n2, n1), den |-> d] :
        c \in {NCmp(n1, n2)}} : TRUE)

QSum(an, n1, bn, n2, d) == (CHOOSE val \in {QSumOf(x1, x2, x3, x4, x5) : x1 \in {an}, x2 \in {n1}, x3 \in {bn}, x4 \in {n2}, x5 \in {d}} : TRUE)

QAddOf(a, b) ==
    IF a.den = b.den THEN QSum(a.neg, a.num, b.neg, b.num, a.den)
    ELSE QSum(a.neg, NMul(a.num, b.den), b.neg, NMul(b.num, a.den), NMul(a.den, b.den))

QAdd(a, b) == (CHOOSE val \in {QAddOf(x1, x2) : x1 \in {a}, x2 \in {b}} : TRUE)

QSub(a, b) == QAdd(a, QNeg(b))

\* the rational of sign neg, numerator n and denominator d
QSigned(neg, n, d) == [neg |-> neg /\ n # << >>, num |-> n, den |-> d]

QMulOf(a, b) == (CHOOSE val \in {QSigned(x1, x2, x3) : x1 \in {a.neg # b.neg}, x2 \in {NMul(a.num, b.num)}, x3 \in {NMul(a.den, b.den)}} : TRUE)

QMul(a, b) == (CHOOSE val \in {QMulOf(x1, x2) : x1 \in {a}, x2 \in {b}} : TRUE)

\* a / b for b # 0
QDivOf(a, b) == (CHOOSE val \in {QSigned(x1, x2, x3) : x1 \in {a.neg # b.neg}, x2 \in {NMul(a.num, b.den)}, x3 \in {NMul(a.den, b.num)}} : TRUE)

QDiv(a, b) == (CHOOSE val \in {QDivOf(x1, x2) : x1 \in {a}, x2 \in {b}} : TRUE)

\* -1, 0, 1 as a < b, a = b, a > b
QSign(d) == IF QIsZero(d) THEN 0 ELSE IF d.neg THEN -1 ELSE 1

QCmpOf(a, b) == (CHOOSE val \in {QSign(x1) : x1 \in {QSub(a, b)}} : TRUE)

QCmp(a, b) == (CHOOSE val \in {QCmpOf(x1, x2) : x1 \in {a}, x2 \in {b}} : TRUE)

QEq(a, b) == QCmp(a, b) = 0
QLt(a, b) == QCmp(a, b) < 0
QLe(a, b) == QCmp(a, b) <= 0

RECURSIVE QPowN(_, _)
QPowNOf(a, t) == IF t = 0 THEN QOne ELSE QMul(a, QPowN(a, t - 1))

QPowN(a, t) == (CHOOSE val \in {QPowNOf(x1, x2) : x1 \in {a}, x2 \in {t}} : TRUE)

-----------------------------------------------------------------------------
(* Float values: a rational, or one of the non-finite values of the        *)
(* format.  Fl rounds an exact result to the current significand width.    *)

Inf == [special |-> "inf"]
NegInf == [special |-> "-inf"]
NaN == [special |-> "nan"]

IsFinite(v) == "num" \in DOMAIN v
IsNaN(v) == v = NaN

Pow2(k) == 2 ^ k

\* a * 2^k: whole digits first, then the bits that remain
RECURSIVE NShift(_, _)
NShiftOf(a, k) ==
    IF a = << >> \/ k = 0 THEN a
    ELSE IF k >= 15 THEN <<0>> \o NShift(a, k - 15)
    ELSE NMulD(a, Pow2(k), 0)

NShift(a, k) == (CHOOSE val \in {NShiftOf(x1, x2) : x1 \in {a}, x2 \in {k}} : TRUE)

\* the number of bits of m
RECURSIVE BitLen(_)
BitLen(m) == IF m = 0 THEN 0 ELSE 1 + BitLen(m \div 2)

\* the number of bits of a > 0
NBitLen(a) == 15 * (Len(a) - 1) + BitLen(a[Len(a)])

\* the exponent e with 2^(p-1) <= (n/d) / 2^e < 2^p, searched from e
RECURSIVE FindExp(_, _, _, _)
FindExpOf(n, d, p, e) ==
    (CHOOSE val \in {
              IF NCmp(nn, NShift(dd, p - 1)) < 0 THEN FindExp(n, d, p, e - 1)
              ELSE IF NCmp(nn, NShift(dd, p)) >= 0 THEN FindExp(n, d, p, e + 1)
              ELSE e :
        nn \in {NShift(n, IF e < 0 THEN -e ELSE 0)}, dd \in {NShift(d, IF e > 0 THEN e ELSE 0)}} : TRUE)

FindExp(n, d, p, e) == CHOOSE r \in {FindExpOf(x, y, p, e) : x \in {n}, y \in {d}} : TRUE

\* the largest m in lo..hi with m * dd <= nn (lo * dd <= nn)
RECURSIVE FloorQuot(_, _, _, _)
FloorQuotOf(nn, dd, lo, hi) ==
    IF lo = hi THEN lo
    ELSE LET mid == (lo + hi + 1) \div 2
         IN  IF NCmp(NMulD(dd, mid, 0), nn) <= 0 THEN FloorQuot(nn, dd, mid, hi)
             ELSE FloorQuot(nn, dd, lo, mid - 1)

FloorQuot(nn, dd, lo, hi) ==
    CHOOSE r \in {FloorQuotOf(x, y, lo, hi) : x \in {nn}, y \in {dd}} : TRUE

\* m / 2^k in lowest terms
RECURSIVE Dyadic(_, _)
Dyadic(m, k) ==
    IF k > 0 /\ m % 2 = 0 THEN Dyadic(m \div 2, k - 1)
    ELSE <<NOfInt(m), NShift(<<1>>, k)>>

\* m0 = floor(nn / dd) rounded to the nearest integer, ties to even, times 2^e
RoundSig(nn, dd, m0, e) ==
    (CHOOSE val \in {
              (CHOOSE val \in {IF e >= 0 THEN <<NShift(NOfInt(m), e), <<1>> >>
                               ELSE Dyadic(m, -e) :
    m \in {IF half > 0 \/ (half = 0 /\ m0 % 2 = 1) THEN m0 + 1 ELSE m0}} : TRUE) :
        half \in {NCmp(NShift(nn, 1), NMulD(dd, 2 * m0 + 1, 0))}} : TRUE)

RoundAt(n, d, p, e) ==
    (CHOOSE val \in {
              (CHOOSE val \in { RoundSig(nn, dd, m0, e) :
    m0 \in {FloorQuot(nn, dd, Pow2(p - 1), Pow2(p) - 1)}} : TRUE) :
        nn \in {NShift(n, IF e < 0 THEN -e ELSE 0)}, dd \in {NShift(d, IF e > 0 THEN e ELSE 0)}} : TRUE)

\* the p-bit float nearest to the positive rational n/d, ties to the even significand
RoundBits(n, d, p) ==
    (CHOOSE val \in {RoundAt(n, d, p, e) :
        e \in {FindExp(n, d, p, NBitLen(n) - NBitLen(d) - p)}} : TRUE)

FlOf(q) ==
    IF prec = 0 \/ QIsZero(q) THEN q
    ELSE (CHOOSE val \in {[neg |-> q.neg, num |-> f[1], den |-> f[2]] :
        f \in {RoundBits(q.num, q.den, prec)}} : TRUE)

Fl(q) == (CHOOSE val \in {FlOf(x1) : x1 \in {q}} : TRUE)

VIsZero(v) == IsFinite(v) /\ QIsZero(v)
VIsNeg(v) == IF IsFinite(v) THEN v.neg ELSE v = NegInf

SignedInf(neg) == IF neg THEN NegInf ELSE Inf

FNegOf(a) ==
    IF IsFinite(a) THEN QNeg(a)
    ELSE IF a = Inf THEN NegInf ELSE IF a = NegInf THEN Inf ELSE NaN

FNeg(a) == (CHOOSE val \in {FNegOf(x1) : x1 \in {a}} : TRUE)

FAddOf(a, b) ==
    IF IsFinite(a) /\ IsFinite(b) THEN Fl(QAdd(a, b))
    ELSE IF IsNaN(a) \/ IsNaN(b) THEN NaN
    ELSE IF IsFinite(a) THEN b
    ELSE IF IsFinite(b) THEN a
    ELSE IF a = b THEN a ELSE NaN

FAdd(a, b) == (CHOOSE val \in {FAddOf(x1, x2) : x1 \in {a}, x2 \in {b}} : TRUE)

FSub(a, b) == FAdd(a, FNeg(b))

FMulOf(a, b) ==
    IF IsFinite(a) /\ IsFinite(b) THEN Fl(QMul(a, b))
    ELSE IF IsNaN(a) \/ IsNaN(b) \/ VIsZero(a) \/ VIsZero(b) THEN NaN
    ELSE SignedInf(VIsNeg(a) # VIsNeg(b))

FMul(a, b) == (CHOOSE val \in {FMulOf(x1, x2) : x1 \in {a}, x2 \in {b}} : TRUE)

\* numpy float64 division: a zero divisor gives inf or nan (with a warning), no exception
FDivOf(a, b) ==
    IF IsFinite(a) /\ IsFinite(b)
    THEN IF ~QIsZero(b) THEN Fl(QDiv(a, b))
         ELSE IF QIsZero(a) THEN NaN ELSE SignedInf(a.neg)
    ELSE IF IsNaN(a) \/ IsNaN(b) THEN NaN
    ELSE IF IsFinite(a) THEN QZero
    ELSE IF IsFinite(b) THEN SignedInf(VIsNeg(a) # VIsNeg(b))
    ELSE NaN

FDiv(a, b) == (CHOOSE val \in {FDivOf(x1, x2) : x1 \in {a}, x2 \in {b}} : TRUE)

\* a ** t for an integer t >= 0
FPowOf(a, t) == IF IsFinite(a) THEN Fl(QPowN(a, t)) ELSE IF t = 0 THEN QOne ELSE a

FPow(a, t) == (CHOOSE val \in {FPowOf(x1, x2) : x1 \in {a}, x2 \in {t}} : TRUE)

\* == and < of floats (a NaN compares false with everything)
FEqOf(a, b) ==
    IF IsFinite(a) /\ IsFinite(b) THEN QEq(a, b) ELSE ~IsNaN(a) /\ a = b

FEq(a, b) == (CHOOSE val \in {FEqOf(x1, x2) : x1 \in {a}, x2 \in {b}} : TRUE)

FLtOf(a, b) ==
    IF IsFinite(a) /\ IsFinite(b) THEN QLt(a, b)
    ELSE IF IsNaN(a) \/ IsNaN(b) THEN FALSE
    ELSE IF a = NegInf THEN b # NegInf
    ELSE b = Inf /\ a # Inf

FLt(a, b) == (CHOOSE val \in {FLtOf(x1, x2) : x1 \in {a}, x2 \in {b}} : TRUE)

FLe(a, b) == FLt(a, b) \/ FEq(a, b)

-----------------------------------------------------------------------------
(* Calls return a value or raise.                                          *)

Raised(e) == [raised |-> e]
HasRaised(o) == "raised" \in DOMAIN o

NoneArg == [none |-> TRUE]
IsNone(x) == "none" \in DOMAIN x

\* numpy elementwise operands: equal lengths, or a length-1 array stretched
Broadcasts(a, b) == Len(a) = Len(b) \/ Len(a) = 1 \/ Len(b) = 1
BroadLen(a, b) == IF Len(a) = Len(b) THEN Len(a) ELSE IF Len(a) = 1 THEN Len(b) ELSE Len(a)
Elem(a, i) == IF Len(a) = 1 THEN a[1] ELSE a[i]

-----------------------------------------------------------------------------
(* pensionfund/pricer.py                                                   *)

delta_r_default == Rat(1, 10000)

Pricer_init(cash_flows, times, interest_rate) ==
    [class |-> "Pricer", impl |-> "pricer", cash_flows |-> cash_flows,
     times |-> times, interest_rate |-> interest_rate]

\* mutant: every amount discounted by its position in the array, not its time
RECURSIVE Pricer_sum_by_position(_, _, _)
Pricer_sum_by_positionOf(self, rate, n) ==
    IF n = 0 THEN QZero
    ELSE FAdd(Pricer_sum_by_position(self, rate, n - 1),
              FDiv(Elem(self.cash_flows, n), FPow(FAdd(QOne, rate), n)))

Pricer_sum_by_position(self, rate, n) == (CHOOSE val \in {Pricer_sum_by_positionOf(x1, x2, x3) : x1 \in {self}, x2 \in {rate}, x3 \in {n}} : TRUE)

\* np.sum over the first n elements of cash_flows / (1 + rate) ** times
RECURSIVE Pricer_sum(_, _, _)
Pricer_sumOf(self, rate, n) ==
    IF n = 0 THEN QZero
    ELSE FAdd(Pricer_sum(self, rate, n - 1),
              FDiv(Elem(self.cash_flows, n), FPow(FAdd(QOne, rate), Elem(self.times, n))))

Pricer_sum(self, rate, n) == (CHOOSE val \in {Pricer_sumOf(x1, x2, x3) : x1 \in {self}, x2 \in {rate}, x3 \in {n}} : TRUE)

\* sum(cash_flows / (1 + rate) ** times), the shared body of lines 10-11 and 15
Pricer_discounted_sum(self, rate) ==
    IF ~Broadcasts(self.cash_flows, self.times)
    THEN Raised("ValueError")
    ELSE Pricer_sum(self, rate, BroadLen(self.cash_flows, self.times))

Pricer_present_value(self) == Pricer_discounted_sum(self, self.interest_rate)

\* mutant: the difference taken the other way round
Pricer_dv01_reversed(self, delta_r) ==
    (CHOOSE val \in {
              IF HasRaised(pv_current) THEN pv_current ELSE FSub(pv_new, pv_current) :
        pv_current \in {Pricer_present_value(self)}, pv_new \in {Pricer_discounted_sum(self, FAdd(self.interest_rate, delta_r))}} : TRUE)

Pricer_dv01(self, delta_r) ==
    (CHOOSE val \in {
              IF HasRaised(pv_current) THEN pv_current ELSE FSub(pv_current, pv_new) :
        pv_current \in {Pricer_present_value(self)}, pv_new \in {Pricer_discounted_sum(self, FAdd(self.interest_rate, delta_r))}} : TRUE)

Pricer_modified_duration(self, delta_r) ==
    (CHOOSE val \in {
              IF HasRaised(dv01) THEN dv01 ELSE FDiv(dv01, FMul(pv_current, delta_r)) :
        dv01 \in {Pricer_dv01(self, delta_r)}, pv_current \in {Pricer_present_value(self)}} : TRUE)

-----------------------------------------------------------------------------
(* pensionfund/utils/pricer.py                                             *)

utils_Pricer_init(cash_flows, times, interest_rate) ==
    IF Len(cash_flows) # Len(times) THEN Raised("ValueError")
    ELSE IF FLt(interest_rate, QZero) THEN Raised("ValueError")
    ELSE [class |-> "Pricer", impl |-> "utils", cash_flows |-> cash_flows,
          times |-> times, interest_rate |-> interest_rate]

\* mutant: (1 + rate) * times in place of (1 + rate) ** times
RECURSIVE utils_Pricer_sum_linear(_, _, _)
utils_Pricer_sum_linearOf(self, rate, n) ==
    IF n = 0 THEN QZero
    ELSE FAdd(utils_Pricer_sum_linear(self, rate, n - 1),
              FMul(self.cash_flows[n],
                   FDiv(QOne, FMul(FAdd(QOne, rate), Rat(self.times[n], 1)))))

utils_Pricer_sum_linear(self, rate, n) == (CHOOSE val \in {utils_Pricer_sum_linearOf(x1, x2, x3) : x1 \in {self}, x2 \in {rate}, x3 \in {n}} : TRUE)

\* np.sum over the first n elements of cash_flows * (1 / (1 + rate) ** times)
RECURSIVE utils_Pricer_sum(_, _, _)
utils_Pricer_sumOf(self, rate, n) ==
    IF n = 0 THEN QZero
    ELSE FAdd(utils_Pricer_sum(self, rate, n - 1),
              FMul(self.cash_flows[n],
                   FDiv(QOne, FPow(FAdd(QOne, rate), self.times[n]))))

utils_Pricer_sum(self, rate, n) == (CHOOSE val \in {utils_Pricer_sumOf(x1, x2, x3) : x1 \in {self}, x2 \in {rate}, x3 \in {n}} : TRUE)

\* mutant: the interest_rate argument is ignored
utils_Pricer_present_value_stored(self, interest_rate) ==
    utils_Pricer_sum(self, self.interest_rate, Len(self.cash_flows))

utils_Pricer_present_value(self, interest_rate) ==
    utils_Pricer_sum(self,
                     IF IsNone(interest_rate) THEN self.interest_rate ELSE interest_rate,
                     Len(self.cash_flows))

utils_Pricer_dv01(self, interest_rate, delta_r) ==
    LET rate == IF IsNone(interest_rate) THEN self.interest_rate ELSE interest_rate
    IN  (CHOOSE val \in {             FDiv(FSub(pv_down, pv_up), Rat(2, 1)) :
        pv_up \in {utils_Pricer_present_value(self, FAdd(rate, delta_r))}, pv_down \in {utils_Pricer_present_value(self, FSub(rate, delta_r))}} : TRUE)

\* mutant: the quotient with the sign of a price change, -dv01 / (pv * delta_r)
utils_Pricer_modified_duration_negated(self, delta_r) ==
    (CHOOSE val \in {
              IF FEq(pv_current, QZero) THEN Raised("ValueError")
              ELSE FDiv(FNeg(dv01), FMul(pv_current, delta_r)) :
        dv01 \in {utils_Pricer_dv01(self, delta_r, delta_r_default)}, pv_current \in {utils_Pricer_present_value(self, NoneArg)}} : TRUE)

\* line 110 passes delta_r as dv01's first positional parameter, interest_rate
utils_Pricer_modified_duration(self, delta_r) ==
    (CHOOSE val \in {
              IF FEq(pv_current, QZero) THEN Raised("ValueError")
              ELSE FDiv(dv01, FMul(pv_current, delta_r)) :
        dv01 \in {utils_Pricer_dv01(self, delta_r, delta_r_default)}, pv_current \in {utils_Pricer_present_value(self, NoneArg)}} : TRUE)

-----------------------------------------------------------------------------
(* Inputs of the Pricer calls.                                             *)

MaxLen == 2      \* longest generated schedule
MaxTime == 3     \* latest payment time of a generated schedule

Amounts == {Rat(0, 1), Rat(100, 1), Rat(-50, 1)}

\* the fixture of tests/test.py
TestCashFlows == <<Rat(100, 1), Rat(100, 1), Rat(1100, 1)>>
TestTimes == <<1, 2, 3>>
TestRate == Rat(1, 20)

\* a schedule whose payment times are not the positions 1, 2
GapCashFlows == <<Rat(100, 1), Rat(-50, 1)>>
GapTimes == <<1, 3>>

TimeSeqs(n) == {t \in [1..n -> 0..MaxTime] : \A i, j \in 1..n : i < j => t[i] < t[j]}

\* (cash_flows, times) of one length: a schedule of (time, amount) pairs
Schedules ==
    UNION {[1..n -> Amounts] \X TimeSeqs(n) : n \in 0..MaxLen}
        \cup {<<TestCashFlows, TestTimes>>, <<GapCashFlows, GapTimes>>}

\* cash_flows and times of different lengths
Mismatched ==
    { <<TestCashFlows, <<1, 2>> >>,
      << <<Rat(100, 1), Rat(-50, 1)>>, <<2>> >>,
      << <<Rat(100, 1)>>, <<1, 3>> >> }

Rates == {Rat(0, 1), TestRate, Rat(-1, 2)}
Bumps == {delta_r_default, Rat(1, 100)}
\* the optional interest_rate argument of the utils Pricer's methods
RateArgs == {NoneArg, Rat(-1, 2)}

-----------------------------------------------------------------------------
(* Pricer: construction and calls.                                         *)

\* the caller holds no result and no error of a call
Idle == ret = NoCall

\* the caller drops the result or the error of the last call
Forget ==
    /\ ~Idle
    /\ ret' = NoCall
    /\ UNCHANGED <<prec, pricer, hedging, bond, funding>>

\* a constructor that raises leaves no object, and its error with the caller
Constructed(o) == IF HasRaised(o) THEN NoObject ELSE o
Outcome(o, call) == IF HasRaised(o) THEN call ELSE NoCall

NewPricer ==
    /\ pricer = NoObject
    /\ Idle
    /\ \E in \in Schedules \cup Mismatched, r \in Rates, impl \in {"pricer", "utils"} :
          \E o \in {IF impl = "pricer" THEN Pricer_init(in[1], in[2], r)
                     ELSE utils_Pricer_init(in[1], in[2], r)} :
             /\ pricer' = Constructed(o)
             /\ ret' = Outcome(o, [op |-> "Pricer", impl |-> impl, cash_flows |-> in[1],
                                   times |-> in[2], rate |-> r, out |-> o])
    /\ UNCHANGED <<prec, hedging, bond, funding>>

CallPresentValue ==
    /\ pricer # NoObject
    /\ Idle
    /\ \/ /\ pricer.impl = "pricer"
          /\ ret' = [op |-> "present_value", rate |-> NoneArg,
                     out |-> Pricer_present_value(pricer)]
       \/ /\ pricer.impl = "utils"
          /\ \E r \in RateArgs :
                ret' = [op |-> "present_value", rate |-> r,
                        out |-> utils_Pricer_present_value(pricer, r)]
    /\ UNCHANGED <<prec, pricer, hedging, bond, funding>>

CallDv01 ==
    /\ pricer # NoObject
    /\ Idle
    /\ \E b \in Bumps :
          \/ /\ pricer.impl = "pricer"
             /\ ret' = [op |-> "dv01", rate |-> NoneArg, bump |-> b,
                        out |-> Pricer_dv01(pricer, b)]
          \/ /\ pricer.impl = "utils"
             /\ \E r \in RateArgs :
                   ret' = [op |-> "dv01", rate |-> r, bump |-> b,
                           out |-> utils_Pricer_dv01(pricer, r, b)]
    /\ UNCHANGED <<prec, pricer, hedging, bond, funding>>

CallModifiedDuration ==
    /\ pricer # NoObject
    /\ Idle
    /\ \E b \in Bumps :
          ret' = [op |-> "modified_duration", bump |-> b,
                  out |-> IF pricer.impl = "pricer"
                          THEN Pricer_modified_duration(pricer, b)
                          ELSE utils_Pricer_modified_duration(pricer, b)]
    /\ UNCHANGED <<prec, pricer, hedging, bond, funding>>

InitPricer ==
    /\ prec = 0
    /\ pricer = NoObject
    /\ hedging = NoObject
    /\ bond = NoObject
    /\ funding = NoObject
    /\ ret = NoCall

NextPricer ==
    NewPricer \/ CallPresentValue \/ CallDv01 \/ CallModifiedDuration \/ Forget

SpecPricer == InitPricer /\ [][NextPricer]_vars

-----------------------------------------------------------------------------
(* Claims about the Pricer.                                                *)

IsSchedule(p) == Len(p.cash_flows) = Len(p.times)

\* sum over t of amount_t / (1 + r)^t in exact arithmetic
RECURSIVE DiscountedValue(_, _, _, _)
DiscountedValue(cash_flows, times, r, n) ==
    IF n = 0 THEN QZero
    ELSE QAdd(DiscountedValue(cash_flows, times, r, n - 1),
              QDiv(cash_flows[n], QPowN(QAdd(QOne, r), times[n])))

ExactPV(p, r) == DiscountedValue(p.cash_flows, p.times, r, Len(p.cash_flows))

\* C1: on a schedule of (time, amount) pairs and a stored rate r > -1,
\* present_value() returns the sum of amount_t / (1 + r)^t, each amount
\* discounted by its own time.
C1_PresentValueIsDiscountedSum ==
    (ret.op = "present_value" /\ IsNone(ret.rate) /\ IsSchedule(pricer)
        /\ QLt(Rat(-1, 1), pricer.interest_rate))
    => (IsFinite(ret.out) /\ QEq(ret.out, ExactPV(pricer, pricer.interest_rate)))

C1_Witness ==
    /\ ret.op = "present_value" /\ IsNone(ret.rate)
    /\ Len(pricer.cash_flows) = 2
    /\ pricer.times = <<1, 3>>
    /\ ~QIsZero(pricer.cash_flows[1]) /\ ~QIsZero(pricer.cash_flows[2])
    /\ pricer.interest_rate = Rat(-1, 2)

IsTestPricer ==
    /\ pricer # NoObject
    /\ pricer.cash_flows = TestCashFlows
    /\ pricer.times = TestTimes
    /\ pricer.interest_rate = TestRate

\* v rounded to a multiple of 1/scale is m/scale
RoundsTo(v, m, scale) ==
    /\ QLe(Rat(2 * m - 1, 2 * scale), v)
    /\ QLe(v, Rat(2 * m + 1, 2 * scale))

\* C2 as claimed: Pricer([100,100,1100], [1,2,3], 0.05).present_value() is
\* 2238.10 to two decimals.
C2_Claimed ==
    (ret.op = "present_value" /\ IsNone(ret.rate) /\ IsTestPricer)
    => RoundsTo(ret.out, 223810, 100)

\* C2 amended: Pricer([100,100,1100], [1,2,3], 0.05).present_value() is
\* 1136.16 to two decimals (100/1.05 + 100/1.05^2 + 1100/1.05^3).
C2_TestPresentValue ==
    (ret.op = "present_value" /\ IsNone(ret.rate) /\ IsTestPricer)
    => RoundsTo(ret.out, 113616, 100)

C2_Witness == ret.op = "present_value" /\ IsNone(ret.rate) /\ IsTestPricer

\* the rate a call discounts at: the argument, or the stored rate
CallRate == IF IsNone(ret.rate) THEN pricer.interest_rate ELSE ret.rate

\* C3: for every schedule, rate r and bump b, dv01 returns the central
\* difference (PV(r - b) - PV(r + b)) / 2, in both Pricer classes.
C3_Dv01IsCentralDifference ==
    (ret.op = "dv01" /\ IsSchedule(pricer))
    => (IsFinite(ret.out)
        /\ QEq(ret.out, QDiv(QSub(ExactPV(pricer, QSub(CallRate, ret.bump)),
                                  ExactPV(pricer, QAdd(CallRate, ret.bump))),
                             Rat(2, 1))))

\* the DV01 of the pricer's own class at its stored rate with bump b
OwnDv01(b) ==
    IF pricer.impl = "pricer" THEN Pricer_dv01(pricer, b)
    ELSE utils_Pricer_dv01(pricer, NoneArg, b)

\* C4: modified_duration(b) is the DV01 at the stored rate r with the same
\* bump b, divided by (present value at r times b).
C4_DurationUsesOwnRateAndBump ==
    (ret.op = "modified_duration" /\ IsSchedule(pricer)
        /\ ~QIsZero(ExactPV(pricer, pricer.interest_rate)))
    => FEq(ret.out,
           FDiv(OwnDv01(ret.bump),
                FMul(ExactPV(pricer, pricer.interest_rate), ret.bump)))

\* a non-empty schedule with positive times, no negative amount and at
\* least one positive amount
IsPositiveSchedule(p) ==
    /\ IsSchedule(p)
    /\ Len(p.cash_flows) > 0
    /\ \A i \in 1..Len(p.times) : p.times[i] > 0
    /\ \A i \in 1..Len(p.cash_flows) : ~p.cash_flows[i].neg \/ QIsZero(p.cash_flows[i])
    /\ \E i \in 1..Len(p.cash_flows) : QLt(QZero, p.cash_flows[i])

PresentValueAt(r) ==
    IF pricer.impl = "pricer"
    THEN Pricer_present_value([pricer EXCEPT !.interest_rate = r])
    ELSE utils_Pricer_present_value(pricer, r)

\* at every higher rate of the range the present value is strictly lower
DecreasesFromCallRate ==
    \A r \in Rates \cup {Rat(1, 1)} :
        QLt(CallRate, r) => (IsFinite(ret.out) /\ QLt(PresentValueAt(r), ret.out))

ZeroPresentValue == VIsZero(PresentValueAt(pricer.interest_rate))

\* C24: modified_duration raises whenever the present value at the
\* pricer's rate is exactly zero (an all-zero or an empty schedule, for
\* instance), and never returns a value (infinity or NaN) in that case.
C24_ZeroPresentValueRaises ==
    (ret.op = "modified_duration" /\ ZeroPresentValue) => HasRaised(ret.out)

\* C25: constructing a Pricer whose cash_flows and times have different
\* lengths raises, so every constructed Pricer holds cash-flow and time
\* sequences of equal length.
C25_LengthsChecked == pricer # NoObject => Len(pricer.cash_flows) = Len(pricer.times)

-----------------------------------------------------------------------------
(* The Pricer at the edge of the rate domain: rates at and below -1, as    *)
(* the stored rate, as the interest_rate argument, and assigned to the     *)
(* interest_rate attribute of a constructed pricer (main.py line 176).     *)

DomainRates == {Rat(-1, 1), Rat(-2, 1), Rat(-1, 2), TestRate}

NewPricerAtRate ==
    /\ pricer = NoObject
    /\ Idle
    /\ \E in \in Schedules, r \in DomainRates, impl \in {"pricer", "utils"} :
          \E o \in {IF impl = "pricer" THEN Pricer_init(in[1], in[2], r)
                     ELSE utils_Pricer_init(in[1], in[2], r)} :
             /\ pricer' = Constructed(o)
             /\ ret' = Outcome(o, [op |-> "Pricer", impl |-> impl, cash_flows |-> in[1],
                                   times |-> in[2], rate |-> r, out |-> o])
    /\ UNCHANGED <<prec, hedging, bond, funding>>

\* pricer.interest_rate = r: a plain attribute, assigned without any check
AssignInterestRate ==
    /\ pricer # NoObject
    /\ Idle
    /\ \E r \in DomainRates :
          /\ ~QEq(r, pricer.interest_rate)
          /\ pricer' = [pricer EXCEPT !.interest_rate = r]
    /\ UNCHANGED <<prec, hedging, bond, funding, ret>>

CallPresentValueAtRate ==
    /\ pricer # NoObject
    /\ Idle
    /\ \/ /\ pricer.impl = "pricer"
          /\ ret' = [op |-> "present_value", rate |-> NoneArg,
                     out |-> Pricer_present_value(pricer)]
       \/ /\ pricer.impl = "utils"
          /\ \E r \in {NoneArg} \cup DomainRates :
                ret' = [op |-> "present_value", rate |-> r,
                        out |-> utils_Pricer_present_value(pricer, r)]
    /\ UNCHANGED <<prec, pricer, hedging, bond, funding>>

NextRateDomain == NewPricerAtRate \/ AssignInterestRate \/ CallPresentValueAtRate \/ Forget

SpecRateDomain == InitPricer /\ [][NextRateDomain]_vars

\* C23: present_value fails whenever the rate it discounts at is <= -1,
\* be it the stored rate, the interest_rate argument or a rate assigned to
\* the pricer after construction; it never returns a value for such a rate.
C23_PresentValueRejectsRate ==
    (ret.op = "present_value" /\ QLe(CallRate, Rat(-1, 1))) => HasRaised(ret.out)

-----------------------------------------------------------------------------
(* pensionfund/hedging.py and pensionfund/utils/hedging.py                 *)

\* a / b on Python floats: a zero divisor raises
PyDiv(a, b) == IF VIsZero(b) THEN Raised("ZeroDivisionError") ELSE FDiv(a, b)

\* mutant: the check of bond_dv01 is missing
Hedging_init_any_bond_dv01(liability_dv01, bond_dv01, hedge_percentage) ==
    IF ~(FLt(QZero, hedge_percentage) /\ FLe(hedge_percentage, QOne))
    THEN Raised("ValueError")
    ELSE [class |-> "Hedging", impl |-> "hedging", liability_dv01 |-> liability_dv01,
          bond_dv01 |-> bond_dv01, hedge_percentage |-> hedge_percentage]

Hedging_init(liability_dv01, bond_dv01, hedge_percentage) ==
    IF ~(FLt(QZero, hedge_percentage) /\ FLe(hedge_percentage, QOne))
    THEN Raised("ValueError")
    ELSE IF FEq(bond_dv01, QZero) THEN Raised("ValueError")
    ELSE [class |-> "Hedging", impl |-> "hedging", liability_dv01 |-> liability_dv01,
          bond_dv01 |-> bond_dv01, hedge_percentage |-> hedge_percentage]

\* mutant: the whole liability DV01 is hedged, whatever the hedge percentage
Hedging_notional_unscaled(self) == PyDiv(self.liability_dv01, self.bond_dv01)

Hedging_calculate_notional(self) ==
    (CHOOSE val \in {                 PyDiv(desired_hedge_dv01, self.bond_dv01) :
        desired_hedge_dv01 \in {FMul(self.hedge_percentage, self.liability_dv01)}} : TRUE)

\* mutant: the DV01s stored at construction in place of the current ones
Hedging_hedge_ratio_of_stored(self, notional, liability_dv01_current, bond_dv01_current) ==
    IF FEq(self.liability_dv01, QZero) THEN Raised("ValueError")
    ELSE PyDiv(FMul(notional, self.bond_dv01), self.liability_dv01)

Hedging_calculate_hedge_ratio(self, notional, liability_dv01_current, bond_dv01_current) ==
    IF FEq(liability_dv01_current, QZero) THEN Raised("ValueError")
    ELSE PyDiv(FMul(notional, bond_dv01_current), liability_dv01_current)

utils_Hedging_init(liability_dv01, bond_dv01, hedge_percentage) ==
    IF ~(FLt(QZero, hedge_percentage) /\ FLe(hedge_percentage, QOne))
    THEN Raised("ValueError")
    ELSE IF FEq(bond_dv01, QZero) THEN Raised("ValueError")
    ELSE [class |-> "Hedging", impl |-> "utils", liability_dv01 |-> liability_dv01,
          bond_dv01 |-> bond_dv01, hedge_percentage |-> hedge_percentage]

\* mutant: the desired DV01 multiplied by the bond DV01
utils_Hedging_notional_times_bond(self) ==
    FMul(FMul(self.hedge_percentage, self.liability_dv01), self.bond_dv01)

\* the except clause re-raises the ZeroDivisionError of the division
utils_Hedging_calculate_notional(self) ==
    (CHOOSE val \in {                 PyDiv(desired_hedge_dv01, self.bond_dv01) :
        desired_hedge_dv01 \in {FMul(self.hedge_percentage, self.liability_dv01)}} : TRUE)

\* mutant: the liability DV01 and the bond DV01 change places
utils_Hedging_hedge_ratio_inverted(self, notional, liability_dv01_current, bond_dv01_current) ==
    IF FEq(liability_dv01_current, QZero) THEN Raised("ValueError")
    ELSE PyDiv(FMul(notional, liability_dv01_current), bond_dv01_current)

utils_Hedging_calculate_hedge_ratio(self, notional, liability_dv01_current, bond_dv01_current) ==
    IF FEq(liability_dv01_current, QZero) THEN Raised("ValueError")
    ELSE PyDiv(FMul(notional, bond_dv01_current), liability_dv01_current)

-----------------------------------------------------------------------------
(* Hedging: inputs, construction and calls.                                *)

FloatPrec == 5   \* significand bits of the rounded arithmetic

\* the fixture of tests/test.py
TestLiabilityDv01 == Rat(100000, 1)
TestBondDv01 == Rat(9163, 10000)
TestHedgePercentage == Rat(1, 2)
TestNotional == Rat(5458904, 100)

LiabilityDv01s == {Rat(0, 1), Rat(3, 1), Rat(-2, 1), TestLiabilityDv01}
BondDv01s == {Rat(0, 1), Rat(-7, 1), TestBondDv01}
HedgePercentages == {Rat(0, 1), Rat(1, 10), TestHedgePercentage, Rat(1, 1), Rat(3, 2)}
Notionals == {Rat(0, 1), TestNotional}

NewHedging ==
    /\ hedging = NoObject
    /\ Idle
    /\ \E l \in LiabilityDv01s, b \in BondDv01s, h \in HedgePercentages,
          impl \in {"hedging", "utils"} :
          \E o \in {IF impl = "hedging" THEN Hedging_init(Fl(l), Fl(b), Fl(h))
                     ELSE utils_Hedging_init(Fl(l), Fl(b), Fl(h))} :
             /\ hedging' = Constructed(o)
             /\ ret' = Outcome(o, [op |-> "Hedging", impl |-> impl, liability_dv01 |-> l,
                                   bond_dv01 |-> b, hedge_percentage |-> h, out |-> o])
    /\ UNCHANGED <<prec, pricer, bond, funding>>

CallCalculateNotional ==
    /\ hedging # NoObject
    /\ Idle
    /\ ret' = [op |-> "calculate_notional",
               out |-> IF hedging.impl = "hedging"
                       THEN Hedging_calculate_notional(hedging)
                       ELSE utils_Hedging_calculate_notional(hedging)]
    /\ UNCHANGED <<prec, pricer, hedging, bond, funding>>

\* the notional argument is a given amount, or (sized) the value that
\* calculate_notional has just returned to the caller
CallCalculateHedgeRatio ==
    /\ hedging # NoObject
    /\ \/ Idle
       \/ ret.op = "calculate_notional" /\ ~HasRaised(ret.out)
    /\ \E n \in (IF Idle THEN {Fl(x) : x \in Notionals} ELSE {ret.out}),
          l \in LiabilityDv01s, b \in BondDv01s :
          ret' = [op |-> "calculate_hedge_ratio", sized |-> ~Idle, notional |-> n,
                  liability_dv01_current |-> Fl(l), bond_dv01_current |-> Fl(b),
                  out |-> IF hedging.impl = "hedging"
                          THEN Hedging_calculate_hedge_ratio(hedging, n, Fl(l), Fl(b))
                          ELSE utils_Hedging_calculate_hedge_ratio(hedging, n, Fl(l), Fl(b))]
    /\ UNCHANGED <<prec, pricer, hedging, bond, funding>>

InitHedging ==
    /\ prec \in {0, FloatPrec}
    /\ pricer = NoObject
    /\ hedging = NoObject
    /\ bond = NoObject
    /\ funding = NoObject
    /\ ret = NoCall

NextHedging == NewHedging \/ CallCalculateNotional \/ CallCalculateHedgeRatio \/ Forget

SpecHedging == InitHedging /\ [][NextHedging]_vars

-----------------------------------------------------------------------------
(* Claims about Hedging.                                                   *)

\* (1 + u)^k - 1 for the unit roundoff u = 2^-prec: the relative error that
\* k rounded operations can add up to; 0 in the arithmetic without rounding
RelBound(k) ==
    IF prec = 0 THEN QZero
    ELSE Rat((Pow2(prec) + 1) ^ k - Pow2(prec * k), Pow2(prec * k))

\* v is the exact value x up to k roundings
Within(v, x, k) ==
    /\ ~HasRaised(v)
    /\ IsFinite(v)
    /\ QLe(QAbs(QSub(v, x)), QMul(RelBound(k), QAbs(x)))

\* C5: on a constructed Hedging object (B # 0, h in (0,1]) calculate_notional()
\* returns h * L / B: exactly in arithmetic without rounding, and to within
\* the two roundings of its product and its quotient in float arithmetic.
C5_NotionalIsScaledRatio ==
    ret.op = "calculate_notional"
    => Within(ret.out,
              QDiv(QMul(hedging.hedge_percentage, hedging.liability_dv01),
                   hedging.bond_dv01), 2)

C5_Witness ==
    /\ ret.op = "calculate_notional"
    /\ hedging.impl = "utils"
    /\ QEq(hedging.hedge_percentage, Rat(1, 10))
    /\ QEq(hedging.liability_dv01, Rat(-2, 1))
    /\ QEq(hedging.bond_dv01, Rat(-7, 1))

IsTestHedging ==
    /\ hedging # NoObject
    /\ QEq(hedging.liability_dv01, TestLiabilityDv01)
    /\ QEq(hedging.bond_dv01, TestBondDv01)
    /\ QEq(hedging.hedge_percentage, TestHedgePercentage)

\* C6 as claimed: Hedging(100000, 0.9163, 0.5).calculate_notional() is
\* 54589.8 to one decimal.
C6_Claimed ==
    (ret.op = "calculate_notional" /\ IsTestHedging)
    => (~HasRaised(ret.out) /\ RoundsTo(ret.out, 545898, 10))

\* C6 amended: Hedging(100000, 0.9163, 0.5).calculate_notional() is
\* 54567.3 to one decimal (0.5 * 100000 / 0.9163).
C6_TestNotional ==
    (ret.op = "calculate_notional" /\ IsTestHedging)
    => (~HasRaised(ret.out) /\ RoundsTo(ret.out, 545673, 10))

C6_Witness == ret.op = "calculate_notional" /\ IsTestHedging /\ hedging.impl = "hedging"

\* C7: calculate_hedge_ratio(N, L, B) with L # 0 returns N * B / L (exactly
\* without rounding, to within its two roundings in float arithmetic),
\* whatever DV01s and hedge percentage the object stores.
C7_HedgeRatioOfArguments ==
    (ret.op = "calculate_hedge_ratio" /\ ~QIsZero(ret.liability_dv01_current))
    => Within(ret.out,
              QDiv(QMul(ret.notional, ret.bond_dv01_current),
                   ret.liability_dv01_current), 2)

C7_Witness ==
    /\ ret.op = "calculate_hedge_ratio"
    /\ ~ret.sized
    /\ ~QIsZero(ret.notional)
    /\ ~QIsZero(ret.liability_dv01_current)
    /\ ~QIsZero(ret.bond_dv01_current)
    /\ ~QEq(ret.liability_dv01_current, hedging.liability_dv01)
    /\ ~QEq(ret.bond_dv01_current, hedging.bond_dv01)
    /\ ~QEq(QMul(ret.bond_dv01_current, hedging.liability_dv01),
            QMul(hedging.bond_dv01, ret.liability_dv01_current))

\* the call is calculate_hedge_ratio(notional, L, B) on Hedging(L, B, h) with
\* notional the value calculate_notional() returned, and L # 0
IsRoundTrip ==
    /\ ret.op = "calculate_hedge_ratio"
    /\ ret.sized
    /\ QEq(ret.liability_dv01_current, hedging.liability_dv01)
    /\ QEq(ret.bond_dv01_current, hedging.bond_dv01)
    /\ ~QIsZero(hedging.liability_dv01)

\* C8 as claimed: the round trip returns exactly h.
C8_RoundTripExact ==
    IsRoundTrip => (~HasRaised(ret.out) /\ FEq(ret.out, hedging.hedge_percentage))

\* C8 amended: for L # 0 the round trip returns h up to the roundings of its
\* four float operations (relative error at most (1 + u)^4 - 1), and exactly
\* h in arithmetic without rounding.
C8_RoundTripWithinRounding ==
    IsRoundTrip => Within(ret.out, hedging.hedge_percentage, 4)

C8_Witness ==
    /\ IsRoundTrip
    /\ prec > 0
    /\ ~HasRaised(ret.out)
    /\ ~FEq(ret.out, hedging.hedge_percentage)

\* C19: constructing a Hedging object with hedge_percentage outside (0,1]
\* (0 and values above 1 included) or with bond_dv01 = 0 raises and yields
\* no object: every object that exists has hedge_percentage in (0,1] and
\* bond_dv01 # 0, a construction that raised left no object, and so
\* calculate_notional never divides by zero.
C19_InvalidHedgingRaises ==
    /\ hedging # NoObject
       => /\ FLt(QZero, hedging.hedge_percentage)
          /\ FLe(hedging.hedge_percentage, QOne)
          /\ ~VIsZero(hedging.bond_dv01)
    /\ ret.op = "Hedging"
       => /\ ret.out = Raised("ValueError")
          /\ hedging = NoObject
    /\ ret.op = "calculate_notional" => ret.out # Raised("ZeroDivisionError")

\* a valid hedge percentage with a zero bond DV01 has been rejected
C19_Witness ==
    /\ ret.op = "Hedging"
    /\ QEq(ret.hedge_percentage, QOne)
    /\ QIsZero(ret.bond_dv01)
    /\ ret.out = Raised("ValueError")
    /\ hedging = NoObject

\* a hedge percentage of 0, and one above 1, have been rejected
C19_WitnessPercentage ==
    /\ ret.op = "Hedging"
    /\ (QIsZero(ret.hedge_percentage) \/ QLt(QOne, ret.hedge_percentage))
    /\ ~QIsZero(ret.bond_dv01)
    /\ HasRaised(ret.out)

-----------------------------------------------------------------------------
(* pensionfund/bond.py                                                     *)

\* mutant: the face value is repaid with the first coupon
Bond_cash_flows_repaid_first(self) ==
    [[i \in 1..self.maturity |-> FMul(self.coupon, self.face_value)]
        EXCEPT ![1] = FAdd(@, self.face_value)]

\* np.full(maturity, coupon * face_value), then cash_flows[-1] += face_value
Bond_generate_cash_flows(self) ==
    [[i \in 1..self.maturity |-> FMul(self.coupon, self.face_value)]
        EXCEPT ![self.maturity] = FAdd(@, self.face_value)]

\* np.arange(1, maturity + 1)
Bond_times(self) == [i \in 1..self.maturity |-> i]

\* lines 15-17: the schedule and its pricer are attached to the fields set so far
Bond_attach(self, cash_flows) ==
    [class |-> "Bond", name |-> self.name, coupon |-> self.coupon,
     maturity |-> self.maturity, interest_rate |-> self.interest_rate,
     face_value |-> self.face_value, cash_flows |-> cash_flows,
     times |-> Bond_times(self),
     pricer |-> Pricer_init(cash_flows, Bond_times(self), self.interest_rate)]

Bond_fields(name, coupon, maturity, interest_rate, face_value) ==
    [name |-> name, coupon |-> coupon, maturity |-> maturity,
     interest_rate |-> interest_rate, face_value |-> face_value]

\* mutant: the check of the coupon is missing
Bond_init_any_coupon(name, coupon, maturity, interest_rate, face_value) ==
    IF maturity <= 0 THEN Raised("ValueError")
    ELSE (CHOOSE val \in {   (CHOOSE val \in {Bond_attach(x1, x2) : x1 \in {self}, x2 \in {Bond_generate_cash_flows(self)}} : TRUE) :
        self \in {Bond_fields(name, coupon, maturity, interest_rate, face_value)}} : TRUE)

Bond_init(name, coupon, maturity, interest_rate, face_value) ==
    IF maturity <= 0 THEN Raised("ValueError")
    ELSE IF ~(FLe(QZero, coupon) /\ FLe(coupon, QOne)) THEN Raised("ValueError")
    ELSE (CHOOSE val \in {   (CHOOSE val \in {Bond_attach(x1, x2) : x1 \in {self}, x2 \in {Bond_generate_cash_flows(self)}} : TRUE) :
        self \in {Bond_fields(name, coupon, maturity, interest_rate, face_value)}} : TRUE)

\* the quotient is a numpy float64 division: no check of liability_dv01
Bond_calculate_hedge_ratio(self, liability_dv01, notional) ==
    (CHOOSE val \in {
              IF HasRaised(bond_dv01) THEN bond_dv01
              ELSE FDiv(FMul(notional, bond_dv01), liability_dv01) :
        bond_dv01 \in {Pricer_dv01(self.pricer, delta_r_default)}} : TRUE)

-----------------------------------------------------------------------------
(* Bond: inputs, construction and calls.                                   *)

MaxMaturity == 3   \* longest maturity of a constructed bond

face_value_default == Rat(1, 1)

Coupons == {Rat(0, 1), Rat(1, 20), Rat(1, 1), Rat(-1, 100), Rat(3, 2)}
Maturities == -1..MaxMaturity
FaceValues == {face_value_default, Rat(100, 1), Rat(-100, 1)}
BondRates == {Rat(0, 1), TestRate}

NewBond ==
    /\ bond = NoObject
    /\ Idle
    /\ \E c \in Coupons, m \in Maturities, f \in FaceValues, r \in BondRates :
          \E o \in {Bond_init("bond", Fl(c), m, Fl(r), Fl(f))} :
             /\ bond' = Constructed(o)
             /\ ret' = Outcome(o, [op |-> "Bond", coupon |-> c, maturity |-> m,
                                   face_value |-> f, interest_rate |-> r, out |-> o])
    /\ UNCHANGED <<prec, pricer, hedging, funding>>

CallBondHedgeRatio ==
    /\ bond # NoObject
    /\ Idle
    /\ \E l \in {Rat(0, 1), Rat(3, 1)}, n \in Notionals :
          ret' = [op |-> "Bond.calculate_hedge_ratio", liability_dv01 |-> Fl(l),
                  notional |-> Fl(n),
                  out |-> Bond_calculate_hedge_ratio(bond, Fl(l), Fl(n))]
    /\ UNCHANGED <<prec, pricer, hedging, bond, funding>>

InitBond ==
    /\ prec \in {0, FloatPrec}
    /\ pricer = NoObject
    /\ hedging = NoObject
    /\ bond = NoObject
    /\ funding = NoObject
    /\ ret = NoCall

NextBond == NewBond \/ CallBondHedgeRatio \/ Forget

SpecBond == InitBond /\ [][NextBond]_vars

-----------------------------------------------------------------------------
(* Claims about Bond.                                                      *)

\* C9: a constructed Bond (coupon c in [0,1], maturity T >= 1, face value F)
\* has a schedule of exactly T entries at the strictly increasing times
\* 1..T, with amount c*F at every time t < T and c*F + F at time T (each
\* amount up to the rounding of the product and of the sum that compute it).
C9_BondSchedule ==
    bond # NoObject
    => /\ bond.maturity >= 1
       /\ Len(bond.cash_flows) = bond.maturity
       /\ Len(bond.times) = bond.maturity
       /\ \A t \in 1..bond.maturity : bond.times[t] = t
       /\ \A t \in 1..bond.maturity - 1 : bond.times[t] < bond.times[t + 1]
       /\ \A t \in 1..bond.maturity - 1 :
             Within(bond.cash_flows[t], QMul(bond.coupon, bond.face_value), 1)
       /\ Within(bond.cash_flows[bond.maturity],
                 QAdd(QMul(bond.coupon, bond.face_value), bond.face_value), 2)

C9_Witness ==
    /\ bond # NoObject
    /\ bond.maturity = 3
    /\ QEq(bond.coupon, Rat(1, 20))
    /\ QEq(bond.face_value, Rat(100, 1))
    /\ QEq(bond.cash_flows[1], Rat(5, 1))
    /\ QEq(bond.cash_flows[3], Rat(105, 1))

\* a hedge-ratio computation has been called with a current liability DV01 of 0
ZeroLiabilityDv01 ==
    \/ ret.op = "calculate_hedge_ratio" /\ VIsZero(ret.liability_dv01_current)
    \/ ret.op = "Bond.calculate_hedge_ratio" /\ VIsZero(ret.liability_dv01)

\* C20: every hedge-ratio computation (Hedging.calculate_hedge_ratio and
\* Bond.calculate_hedge_ratio) raises when the current liability DV01 is
\* zero, and never returns a value (infinity, NaN or a default) then.
C20_ZeroLiabilityDv01Raises == ZeroLiabilityDv01 => HasRaised(ret.out)

\* the fields a Bond has once __init__ has returned
BondFields ==
    {"class", "name", "coupon", "maturity", "interest_rate", "face_value",
     "cash_flows", "times", "pricer"}

\* C21: constructing a Bond with maturity <= 0 or with a coupon outside
\* [0,1] raises before any cash flow is generated or any pricer is created:
\* every Bond that exists has maturity >= 1, a coupon in [0,1] and all its
\* fields, and a construction that raised did so with the ValueError of the
\* checks and left no object.
C21_InvalidBondRaises ==
    /\ bond # NoObject
       => /\ bond.maturity >= 1
          /\ FLe(QZero, bond.coupon) /\ FLe(bond.coupon, QOne)
          /\ DOMAIN bond = BondFields
          /\ bond.pricer.class = "Pricer"
    /\ ret.op = "Bond"
       => /\ ret.out = Raised("ValueError")
          /\ bond = NoObject

\* a coupon above 1 with a valid maturity has been rejected
C21_Witness ==
    /\ ret.op = "Bond"
    /\ ret.maturity = 1
    /\ QLt(QOne, ret.coupon)
    /\ ret.out = Raised("ValueError")
    /\ bond = NoObject

\* a maturity of 0 with a valid coupon has been rejected
C21_WitnessMaturity ==
    /\ ret.op = "Bond"
    /\ ret.maturity = 0
    /\ QIsZero(ret.coupon)
    /\ HasRaised(ret.out)

\* C26: every amount in the cash-flow schedule of every constructed Bond
\* is >= 0: no combination of coupon, maturity and face value that the
\* constructor admits produces a negative cash flow.
C26_BondAmountsNonNegative ==
    bond # NoObject
    => \A t \in 1..Len(bond.cash_flows) : FLe(QZero, bond.cash_flows[t])

-----------------------------------------------------------------------------
(* pensionfund/funding_ratio_analysis.py and                               *)
(* pensionfund/utils/funding_ratio_analysis.py                             *)
(* The logarithm is kept as a term: Ln(q) for a rational q > 0, and        *)
(* LnQuot(p, q) for the quotient ln p / ln q of two non-zero logarithms.   *)

Ln(q) == [ln |-> q]
LnQuot(p, q) == [ln_num |-> p, ln_den |-> q]

IsLn(v) == "ln" \in DOMAIN v
LnIsZero(v) == IsLn(v) /\ QEq(v.ln, QOne)
LnIsNeg(v) == IF IsLn(v) THEN QLt(v.ln, QOne) ELSE v = NegInf

\* np.log: -inf at zero and nan below zero (a warning, no exception)
NpLog(v) ==
    IF IsFinite(v)
    THEN IF QIsZero(v) THEN NegInf ELSE IF v.neg THEN NaN ELSE Ln(v)
    ELSE IF v = Inf THEN Inf ELSE NaN

\* a / b of two float64 logarithms
LnDivOf(a, b) ==
    IF IsNaN(a) \/ IsNaN(b) THEN NaN
    ELSE IF IsLn(a) /\ IsLn(b)
    THEN IF LnIsZero(b) THEN (IF LnIsZero(a) THEN NaN ELSE SignedInf(LnIsNeg(a)))
         ELSE IF LnIsZero(a) THEN QZero
         ELSE LnQuot(a.ln, b.ln)
    ELSE IF IsLn(a) THEN QZero
    ELSE IF IsLn(b) THEN SignedInf(LnIsNeg(a) # LnIsNeg(b))
    ELSE NaN

LnDiv(a, b) == (CHOOSE val \in {LnDivOf(x1, x2) : x1 \in {a}, x2 \in {b}} : TRUE)

initial_funding_ratio_default == Rat(4, 5)
nominal_rate_default == Rat(3, 200)

FundingRatioAnalysis_init(initial_funding_ratio, nominal_rate) ==
    IF ~(FLt(QZero, initial_funding_ratio) /\ FLt(initial_funding_ratio, QOne))
    THEN Raised("ValueError")
    ELSE IF FLe(nominal_rate, QZero) THEN Raised("ValueError")
    ELSE [class |-> "FundingRatioAnalysis", impl |-> "funding_ratio_analysis",
          initial_funding_ratio |-> initial_funding_ratio, nominal_rate |-> nominal_rate]

\* mutant: only a non-positive denominator is unattainable
FundingRatioAnalysis_time_nonpositive(self, x) ==
    (CHOOSE val \in {
              IF FLe(denominator, QZero) THEN Inf
              ELSE IF HasRaised(inverse) THEN Inf
              ELSE LnDiv(NpLog(inverse), NpLog(denominator)) :
        denominator \in {FAdd(FAdd(QOne, self.nominal_rate), x)}, inverse \in {PyDiv(QOne, self.initial_funding_ratio)}} : TRUE)

\* the bare except turns every error of the quotient into inf
FundingRatioAnalysis_time_to_full_funding(self, x) ==
    (CHOOSE val \in {
              IF FLe(denominator, QOne) THEN Inf
              ELSE IF HasRaised(inverse) THEN Inf
              ELSE LnDiv(NpLog(inverse), NpLog(denominator)) :
        denominator \in {FAdd(FAdd(QOne, self.nominal_rate), x)}, inverse \in {PyDiv(QOne, self.initial_funding_ratio)}} : TRUE)

\* mutant: a funding ratio of exactly 1 is accepted
utils_FundingRatioAnalysis_init_closed(initial_funding_ratio, nominal_rate) ==
    IF ~(FLt(QZero, initial_funding_ratio) /\ FLe(initial_funding_ratio, QOne))
    THEN Raised("ValueError")
    ELSE IF FLe(nominal_rate, QZero) THEN Raised("ValueError")
    ELSE [class |-> "FundingRatioAnalysis", impl |-> "utils",
          initial_funding_ratio |-> initial_funding_ratio, nominal_rate |-> nominal_rate]

utils_FundingRatioAnalysis_init(initial_funding_ratio, nominal_rate) ==
    IF ~(FLt(QZero, initial_funding_ratio) /\ FLt(initial_funding_ratio, QOne))
    THEN Raised("ValueError")
    ELSE IF FLe(nominal_rate, QZero) THEN Raised("ValueError")
    ELSE [class |-> "FundingRatioAnalysis", impl |-> "utils",
          initial_funding_ratio |-> initial_funding_ratio, nominal_rate |-> nominal_rate]

\* only FloatingPointError and ValueError are turned into inf
utils_FundingRatioAnalysis_time_to_full_funding(self, x) ==
    (CHOOSE val \in {
              IF FLe(denominator, QOne) THEN Inf
              ELSE IF HasRaised(inverse)
              THEN (IF inverse.raised \in {"FloatingPointError", "ValueError"}
                    THEN Inf ELSE inverse)
              ELSE LnDiv(NpLog(inverse), NpLog(denominator)) :
        denominator \in {FAdd(FAdd(QOne, self.nominal_rate), x)}, inverse \in {PyDiv(QOne, self.initial_funding_ratio)}} : TRUE)

\* a dict kept as its items in insertion order
Dict(items) == [items |-> items]

\* results[x] = t: a key equal to x (float ==) keeps its place and takes the
\* new value, a new key is added at the end
dict_setitem(results, x, t) ==
    IF \E i \in 1..Len(results.items) : FEq(results.items[i].key, x)
    THEN Dict([i \in 1..Len(results.items) |->
                  IF FEq(results.items[i].key, x)
                  THEN [key |-> results.items[i].key, value |-> t]
                  ELSE results.items[i]])
    ELSE Dict(Append(results.items, [key |-> x, value |-> t]))

\* the loop of analyze over the first n elements of x_values
RECURSIVE FundingRatioAnalysis_analyze_loop(_, _, _)
FundingRatioAnalysis_analyze_loopOf(self, x_values, n) ==
    IF n = 0 THEN Dict(<<>>)
    ELSE dict_setitem(FundingRatioAnalysis_analyze_loop(self, x_values, n - 1),
                      x_values[n],
                      FundingRatioAnalysis_time_to_full_funding(self, x_values[n]))

FundingRatioAnalysis_analyze_loop(self, x_values, n) == (CHOOSE val \in {FundingRatioAnalysis_analyze_loopOf(x1, x2, x3) : x1 \in {self}, x2 \in {x_values}, x3 \in {n}} : TRUE)

FundingRatioAnalysis_analyze(self, x_values) ==
    FundingRatioAnalysis_analyze_loop(self, x_values, Len(x_values))

\* an error of time_to_full_funding leaves the loop and analyze
RECURSIVE utils_FundingRatioAnalysis_analyze_loop(_, _, _)
utils_FundingRatioAnalysis_analyze_loopOf(self, x_values, n) ==
    IF n = 0 THEN Dict(<<>>)
    ELSE (CHOOSE val \in {
                   IF HasRaised(results) THEN results
                   ELSE IF HasRaised(t) THEN t
                   ELSE dict_setitem(results, x_values[n], t) :
        results \in {utils_FundingRatioAnalysis_analyze_loop(self, x_values, n - 1)}, t \in {utils_FundingRatioAnalysis_time_to_full_funding(self, x_values[n])}} : TRUE)

utils_FundingRatioAnalysis_analyze_loop(self, x_values, n) == (CHOOSE val \in {utils_FundingRatioAnalysis_analyze_loopOf(x1, x2, x3) : x1 \in {self}, x2 \in {x_values}, x3 \in {n}} : TRUE)

utils_FundingRatioAnalysis_analyze(self, x_values) ==
    utils_FundingRatioAnalysis_analyze_loop(self, x_values, Len(x_values))

-----------------------------------------------------------------------------
(* FundingRatioAnalysis: inputs, construction and calls.                   *)

FundingRatios == {Rat(0, 1), Rat(1, 2), initial_funding_ratio_default, Rat(1, 1), Rat(3, 2)}
NominalRates == {Rat(0, 1), nominal_rate_default, Rat(1, 4), Rat(-1, 100)}
Offsets ==
    {Rat(0, 1), Rat(1, 200), Rat(-1, 50), Rat(-3, 200), Rat(-1, 4), Rat(-1, 1), Rat(-2, 1)}

NewFundingRatioAnalysis ==
    /\ funding = NoObject
    /\ Idle
    /\ \E f \in FundingRatios, n \in NominalRates,
          impl \in {"funding_ratio_analysis", "utils"} :
          \E o \in {IF impl = "utils" THEN utils_FundingRatioAnalysis_init(Fl(f), Fl(n))
                     ELSE FundingRatioAnalysis_init(Fl(f), Fl(n))} :
             /\ funding' = Constructed(o)
             /\ ret' = Outcome(o, [op |-> "FundingRatioAnalysis", impl |-> impl,
                                   initial_funding_ratio |-> f, nominal_rate |-> n,
                                   out |-> o])
    /\ UNCHANGED <<prec, pricer, hedging, bond>>

CallTimeToFullFunding ==
    /\ funding # NoObject
    /\ Idle
    /\ \E x \in Offsets :
          ret' = [op |-> "time_to_full_funding", x |-> Fl(x),
                  out |-> IF funding.impl = "utils"
                          THEN utils_FundingRatioAnalysis_time_to_full_funding(funding, Fl(x))
                          ELSE FundingRatioAnalysis_time_to_full_funding(funding, Fl(x))]
    /\ UNCHANGED <<prec, pricer, hedging, bond, funding>>

MaxOffsets == 2
OffsetSeqs == UNION {[1..n -> Offsets] : n \in 0..MaxOffsets}
FlSeq(xs) == [i \in 1..Len(xs) |-> Fl(xs[i])]

CallAnalyze ==
    /\ funding # NoObject
    /\ Idle
    /\ \E xs \in OffsetSeqs :
          ret' = [op |-> "analyze", x_values |-> FlSeq(xs),
                  out |-> IF funding.impl = "utils"
                          THEN utils_FundingRatioAnalysis_analyze(funding, FlSeq(xs))
                          ELSE FundingRatioAnalysis_analyze(funding, FlSeq(xs))]
    /\ UNCHANGED <<prec, pricer, hedging, bond, funding>>

InitFunding ==
    /\ prec \in {0, FloatPrec}
    /\ pricer = NoObject
    /\ hedging = NoObject
    /\ bond = NoObject
    /\ funding = NoObject
    /\ ret = NoCall

NextFunding == NewFundingRatioAnalysis \/ CallTimeToFullFunding \/ CallAnalyze \/ Forget

SpecFunding == InitFunding /\ [][NextFunding]_vars

-----------------------------------------------------------------------------
(* Claims about FundingRatioAnalysis.                                      *)

\* 1 + n + x as the call computes it
Denominator == FAdd(FAdd(QOne, funding.nominal_rate), ret.x)

\* v is the finite value ln(p) / ln(q), q # 1
IsLnQuotient(v, p, q) ==
    IF QEq(p, QOne) THEN IsFinite(v) /\ QIsZero(v)
    ELSE /\ "ln_num" \in DOMAIN v
         /\ QEq(v.ln_num, p)
         /\ QEq(v.ln_den, q)

TimeFor(x) ==
    IF funding.impl = "utils" THEN utils_FundingRatioAnalysis_time_to_full_funding(funding, x)
    ELSE FundingRatioAnalysis_time_to_full_funding(funding, x)

\* C22: constructing a FundingRatioAnalysis with an initial funding ratio
\* outside the open interval (0,1) (exactly 0 and exactly 1 included) or
\* with a nominal rate <= 0 raises and leaves no object, so
\* time_to_full_funding and analyze only ever run with a funding ratio in
\* (0,1) and a nominal rate > 0.
C22_InvalidFundingRaises ==
    /\ funding # NoObject
       => /\ FLt(QZero, funding.initial_funding_ratio)
          /\ FLt(funding.initial_funding_ratio, QOne)
          /\ FLt(QZero, funding.nominal_rate)
    /\ ret.op = "FundingRatioAnalysis"
       => /\ ret.out = Raised("ValueError")
          /\ funding = NoObject
    /\ ret.op \in {"time_to_full_funding", "analyze"} => funding # NoObject

\* a funding ratio of exactly 1 with a valid nominal rate has been rejected
C22_Witness ==
    /\ ret.op = "FundingRatioAnalysis"
    /\ ret.impl = "utils"
    /\ QEq(ret.initial_funding_ratio, QOne)
    /\ QLt(QZero, ret.nominal_rate)
    /\ ret.out = Raised("ValueError")
    /\ funding = NoObject

\* a nominal rate of 0 with a valid funding ratio has been rejected
C22_WitnessRate ==
    /\ ret.op = "FundingRatioAnalysis"
    /\ QEq(ret.initial_funding_ratio, initial_funding_ratio_default)
    /\ QIsZero(ret.nominal_rate)
    /\ HasRaised(ret.out)

\* C11: analyze returns one result per input element, in input order and
\* index-aligned with the input, repeated offsets included: as many results
\* as inputs, the i-th result being offset i with its time to full funding.
C11_AnalyzeIndexAligned ==
    ret.op = "analyze"
    => /\ ~HasRaised(ret.out)
       /\ Len(ret.out.items) = Len(ret.x_values)
       /\ \A i \in 1..Len(ret.x_values) :
             /\ FEq(ret.out.items[i].key, ret.x_values[i])
             /\ ret.out.items[i].value = TimeFor(ret.x_values[i])


-----------------------------------------------------------------------------
(* pensionfund/main.py and pensionfund/utils/main_utils.py: the hedge      *)
(* ratio over the rows (days_from_now, interest_rate) of df_hedge.         *)
(* pensionfund/utils/bond.py is not among the sources; the Bond that       *)
(* main_utils.py imports is modelled from the specification's bond terms.  *)

utils_Bond_generate_cash_flows(self) ==
    [[i \in 1..self.maturity |-> FMul(self.coupon, self.face_value)]
        EXCEPT ![self.maturity] = FAdd(@, self.face_value)]

utils_Bond_init(name, coupon, maturity, interest_rate, face_value) ==
    IF maturity <= 0 THEN Raised("ValueError")
    ELSE IF ~(FLe(QZero, coupon) /\ FLe(coupon, QOne)) THEN Raised("ValueError")
    ELSE IF ~FLt(QZero, face_value) THEN Raised("ValueError")
    ELSE (CHOOSE val \in {
                   [class |-> "Bond", impl |-> "utils", name |-> name, coupon |-> coupon,
                    maturity |-> maturity, interest_rate |-> interest_rate,
                    face_value |-> face_value,
                    cash_flows |-> utils_Bond_generate_cash_flows(self)] :
        self \in {Bond_fields(name, coupon, maturity, interest_rate, face_value)}} : TRUE)

\* the largest value of a DV01 in units of 0.0001 that float_of_4f handles
MaxFormatted == Base - 1

\* m * dd <= nn
AtMost(nn, dd, m) == m = 0 \/ NCmp(NMulD(dd, m, 0), nn) <= 0

\* the largest m in lo .. lo + 8 * step - 1 with m * dd <= nn (lo * dd <= nn),
\* one octal digit at a time
RECURSIVE FormattedUnits(_, _, _, _)
FormattedUnitsOf(nn, dd, lo, step) ==
    (CHOOSE val \in {IF step = 1 THEN m ELSE FormattedUnits(nn, dd, m, step \div 8) :
        m \in {CHOOSE m \in {lo + d * step : d \in 0..7} :
              AtMost(nn, dd, m) /\ (m + step > MaxFormatted \/ ~AtMost(nn, dd, m + step))}} : TRUE)

FormattedUnits(nn, dd, lo, step) ==
    CHOOSE r \in {FormattedUnitsOf(x, y, lo, step) : x \in {nn}, y \in {dd}} : TRUE

\* float(f"{x:,.4f}".replace(",", "")): x to four decimals, ties to even
float_of_4fOf(x) ==
    IF ~IsFinite(x) THEN x
    ELSE (CHOOSE val \in {
                   (CHOOSE val \in {
                             (CHOOSE val \in {
                                       Fl(QSigned(x.neg,
                                                  NOfInt(IF half > 0 \/ (half = 0 /\ m0 % 2 = 1)
                                                         THEN m0 + 1 ELSE m0),
                                                  NOfInt(10000))) :
    half \in {NCmp(NShift(nn, 1), NMul(dd, NOfInt(2 * m0 + 1)))}} : TRUE) :
    m0 \in {FormattedUnits(nn, dd, 0, (MaxFormatted + 1) \div 8)}} : TRUE) :
        nn \in {NMulD(x.num, 10000, 0)}, dd \in {x.den}} : TRUE)

float_of_4f(x) == (CHOOSE val \in {float_of_4fOf(x1) : x1 \in {x}} : TRUE)

hedge_percentage == Rat(1, 2)

\* the objects of a run and the result of the step that made them
Objects(b, lp, h, out) == [bond |-> b, liabilities_pricer |-> lp, hedging |-> h, out |-> out]

\* Pricer.dv01() of the first n of the pricers, in the order asked
RECURSIVE main_dv01sOf(_, _)
main_dv01sOf(pricers, n) ==
    IF n = 0 THEN << >>
    ELSE Append(main_dv01sOf(pricers, n - 1), Pricer_dv01(pricers[n], delta_r_default))

main_dv01s(pricers) == main_dv01sOf(pricers, Len(pricers))

\* main.py lines 147-150: the Hedging object and its notional
main_sizing(b, lp, dv01_liabilities, bond_dv01) ==
    (CHOOSE val \in {IF HasRaised(h) THEN Objects(b, lp, NoObject, h)
                     ELSE Objects(b, lp, h, Hedging_calculate_notional(h)) :
        h \in {Hedging_init(dv01_liabilities, float_of_4f(bond_dv01), hedge_percentage)}} : TRUE)

chosen_bond_name == "bond_c"

\* df_bonds[df_bonds["bond_name"] == name].iloc[0]: the first row of that
\* name, 0 when there is none
FirstNamed(df_bonds, name) ==
    IF \A i \in 1..Len(df_bonds) : df_bonds[i].bond_name # name THEN 0
    ELSE CHOOSE i \in 1..Len(df_bonds) :
            /\ df_bonds[i].bond_name = name
            /\ \A k \in 1..(i - 1) : df_bonds[k].bond_name # name

\* main.py lines 74-83: the Bond of each of the first n rows of df_bonds, in
\* the order of the sheet; the first constructor that raises ends the program
RECURSIVE main_bonds(_, _, _)
main_bonds(df_bonds, rate, n) ==
    IF n = 0 THEN [bonds |-> << >>]
    ELSE (CHOOSE val \in {IF HasRaised(prev) THEN prev
                          ELSE IF HasRaised(b) THEN b
                          ELSE [bonds |-> Append(prev.bonds, b)] :
             prev \in {main_bonds(df_bonds, rate, n - 1)},
             b \in {Bond_init(df_bonds[n].bond_name, df_bonds[n].coupon,
                              df_bonds[n].maturity, rate, df_bonds[n].face_value)}} : TRUE)

\* main.py lines 134-150: the DV01 of the bond chosen by name, as formatted
\* in the metrics table, sizes the notional; the loop over df_hedge goes on
\* with the variable bond, which the loop over df_bonds left at its last row
main_choose(bonds, c, lp, rate) ==
    IF c = 0 THEN Objects(bonds[Len(bonds)], lp, NoObject, Raised("return"))
    ELSE (CHOOSE val \in {main_sizing(bonds[Len(bonds)], lp, dv01[1], dv01[2]) :
             dv01 \in {main_dv01s(<<lp, Pricer_init(bonds[c].cash_flows,
                                                    Bond_times(bonds[c]), rate)>>)}} : TRUE)

\* main.py lines 46-150: the liabilities pricer at the rate of the first
\* row of df_hedge, the bonds of df_bonds, the Hedging object and the
\* notional; main returns when no bond has the chosen name
main_setup(cash_flows, times, df_bonds, df_hedge) ==
    IF df_hedge = << >> THEN Objects(NoObject, NoObject, NoObject, Raised("IndexError"))
    ELSE IF df_bonds = << >> THEN Objects(NoObject, NoObject, NoObject, Raised("KeyError"))
    ELSE (CHOOSE val \in {
              IF HasRaised(bs) THEN Objects(NoObject, lp, NoObject, bs)
              ELSE main_choose(bs.bonds, FirstNamed(df_bonds, chosen_bond_name), lp,
                               df_hedge[1].interest_rate) :
        lp \in {Pricer_init(cash_flows, times, df_hedge[1].interest_rate)},
        bs \in {main_bonds(df_bonds, df_hedge[1].interest_rate, Len(df_bonds))}} : TRUE)

\* main.py lines 165-170: the bond at the rate of the row
main_row_bond(b, rate) ==
    (CHOOSE val \in {
              [b EXCEPT !.interest_rate = rate, !.cash_flows = cash_flows,
                        !.pricer = Pricer_init(cash_flows, b.times, rate)] :
        cash_flows \in {Bond_generate_cash_flows(b)}} : TRUE)

\* main.py lines 186-189: what is appended for the row
main_row_entry(row, ratio) ==
    IF HasRaised(ratio) THEN ratio
    ELSE [days_from_now |-> row.days_from_now, hedge_ratio |-> ratio]

\* mutant: the liability DV01 is taken before the rate of the row is stored
main_hedge_row_stale(b, lp, h, notional, row) ==
    (CHOOSE val \in {
              Objects(b1, lp1, h,
                      (CHOOSE val \in {
                                (CHOOSE val \in {main_row_entry(x1, x2) : x1 \in {row}, x2 \in {Hedging_calculate_hedge_ratio(h, notional,
                                                                    dv01[2], dv01[1])}} : TRUE) :
                          dv01 \in {main_dv01s(<<b1.pricer, lp>>)}} : TRUE)) :
        b1 \in {main_row_bond(b, row.interest_rate)}, lp1 \in {[lp EXCEPT !.interest_rate = row.interest_rate]}} : TRUE)

\* main.py lines 160-189: one row of df_hedge; line 176 stores the rate of
\* the row in the liabilities pricer
main_hedge_row(b, lp, h, notional, row) ==
    (CHOOSE val \in {
              Objects(b1, lp1, h,
                      (CHOOSE val \in {
                                (CHOOSE val \in {main_row_entry(x1, x2) : x1 \in {row}, x2 \in {Hedging_calculate_hedge_ratio(h, notional,
                                                                    dv01[2], dv01[1])}} : TRUE) :
                          dv01 \in {main_dv01s(<<b1.pricer, lp1>>)}} : TRUE)) :
        b1 \in {main_row_bond(b, row.interest_rate)}, lp1 \in {[lp EXCEPT !.interest_rate = row.interest_rate]}} : TRUE)

\* pricer.dv01(interest_rate=rate) of the first n <<pricer, rate>>, in the order asked
RECURSIVE utils_dv01sOf(_, _)
utils_dv01sOf(calls, n) ==
    IF n = 0 THEN << >>
    ELSE Append(utils_dv01sOf(calls, n - 1),
                utils_Pricer_dv01(calls[n][1], calls[n][2], delta_r_default))

utils_dv01s(calls) == utils_dv01sOf(calls, Len(calls))

\* main_utils.py lines 176-183: the Hedging object and its notional
utils_sizing(b, lp, dv01_liabilities, bond_dv01) ==
    (CHOOSE val \in {IF HasRaised(h) THEN Objects(b, lp, NoObject, h)
                     ELSE Objects(b, lp, h, utils_Hedging_calculate_notional(h)) :
        h \in {utils_Hedging_init(dv01_liabilities, float_of_4f(bond_dv01), hedge_percentage)}} : TRUE)

\* main_utils.py lines 120-140: the pricer of a bond at the flat rate
utils_bond_pricer(b, rate) ==
    IF HasRaised(b) THEN b ELSE utils_Pricer_init(b.cash_flows, Bond_times(b), rate)

\* main_utils.py, process_liabilities: the liabilities pricer and its
\* modified duration, which raises when the present value is zero
utils_process_liabilities(cash_flows, times, flat_interest_rate) ==
    (CHOOSE val \in {
              IF HasRaised(lp) THEN Objects(NoObject, NoObject, NoObject, lp)
              ELSE Objects(NoObject, lp, NoObject,
                           utils_Pricer_modified_duration(lp, delta_r_default)) :
        lp \in {utils_Pricer_init(cash_flows, times, flat_interest_rate)}} : TRUE)

\* main_utils.py lines 119-127: the Bond of each of the first n rows of
\* df_bonds; the first constructor that raises ends the analysis
RECURSIVE utils_bonds(_, _, _)
utils_bonds(df_bonds, rate, n) ==
    IF n = 0 THEN [bonds |-> << >>]
    ELSE (CHOOSE val \in {IF HasRaised(prev) THEN prev
                          ELSE IF HasRaised(b) THEN b
                          ELSE [bonds |-> Append(prev.bonds, b)] :
             prev \in {utils_bonds(df_bonds, rate, n - 1)},
             b \in {utils_Bond_init(df_bonds[n].bond_name, df_bonds[n].coupon,
                                    df_bonds[n].maturity, rate,
                                    df_bonds[n].face_value)}} : TRUE)

\* main_utils.py lines 176-202 and 245-251: the notional is sized from the
\* formatted DV01 of the metrics row, and the bond of the trajectory is
\* built from the row of df_bonds found by the name of the metrics row
utils_size(metrics_bond, details, lp, flat_interest_rate) ==
    (CHOOSE val \in {
              IF HasRaised(o.out) \/ ~HasRaised(o.bond) THEN o
              ELSE Objects(NoObject, lp, o.hedging, o.bond) :
        o \in {(CHOOSE val \in {utils_sizing(b, lp, dv01[1], dv01[2]) :
                    b \in {utils_Bond_init(metrics_bond.name, details.coupon,
                                           details.maturity, flat_interest_rate,
                                           details.face_value)},
                    dv01 \in {utils_dv01s(<< <<lp, NoneArg>>,
                                             <<utils_bond_pricer(metrics_bond,
                                                                 flat_interest_rate),
                                               NoneArg>> >>)}} : TRUE)}} : TRUE)

\* main_utils.py, analyze_bonds and perform_hedging_analysis up to the loop
\* of calculate_hedge_ratio_over_time, for the j-th row of the metrics table;
\* the liability DV01 is the one that process_liabilities has taken of lp
utils_setup(lp, df_bonds, j, flat_interest_rate) ==
    (CHOOSE val \in {
              IF HasRaised(bs) THEN Objects(NoObject, lp, NoObject, bs)
              ELSE utils_size(bs.bonds[j],
                              df_bonds[FirstNamed(df_bonds, bs.bonds[j].name)],
                              lp, flat_interest_rate) :
        bs \in {utils_bonds(df_bonds, flat_interest_rate, Len(df_bonds))}} : TRUE)

\* mutant: the days are counted from 1
utils_row_entry_from_one(row, ratio, current_bond_dv01, current_liability_dv01) ==
    IF HasRaised(ratio) THEN ratio
    ELSE [days_from_now |-> row.days_from_now + 1, hedge_ratio |-> ratio,
          bond_dv01 |-> current_bond_dv01, liability_dv01 |-> current_liability_dv01]

\* main_utils.py lines 276-281: what is appended for the row
utils_row_entry(row, ratio, current_bond_dv01, current_liability_dv01) ==
    IF HasRaised(ratio) THEN ratio
    ELSE [days_from_now |-> row.days_from_now, hedge_ratio |-> ratio,
          bond_dv01 |-> current_bond_dv01, liability_dv01 |-> current_liability_dv01]

\* main_utils.py lines 266-274: the two DV01s at the rate of the row and their ratio
utils_row_ratio(b, lp, h, notional, row, bond_pricer) ==
    IF HasRaised(bond_pricer) THEN Objects(b, lp, h, bond_pricer)
    ELSE (CHOOSE val \in {
                   Objects(b, lp, h,
                           (CHOOSE val \in {    utils_row_entry(row, ratio, dv01[1], dv01[2]) :
                               ratio \in {utils_Hedging_calculate_hedge_ratio(h, notional,
                                                                     dv01[2], dv01[1])}} : TRUE)) :
        dv01 \in {utils_dv01s(<< <<bond_pricer, NoneArg>>, <<lp, row.interest_rate>> >>)}} : TRUE)

\* main_utils.py lines 253-282: one row of df_hedge; the liabilities pricer
\* is asked for its DV01 at the rate of the row and is left as it is
utils_hedge_row(b, lp, h, notional, row) ==
    (CHOOSE val \in {
              (CHOOSE val \in {          utils_row_ratio(b1, lp, h, notional, row, bond_pricer) :
    bond_pricer \in {utils_Pricer_init(b1.cash_flows, Bond_times(b1), row.interest_rate)}} : TRUE) :
        b1 \in {[b EXCEPT !.interest_rate = row.interest_rate,
                    !.cash_flows = utils_Bond_generate_cash_flows(b)]}} : TRUE)


-----------------------------------------------------------------------------
(* Hedge ratio over time: inputs, the set-up, the rows and the return.     *)

MaxPoints == 2   \* longest generated df_hedge

Row(day, rate) == [days_from_now |-> day, interest_rate |-> rate]

HedgeRows ==
    {Row(0, TestRate), Row(30, Rat(0, 1)), Row(60, Rat(-1, 100))}

HedgePaths == UNION {[1..n -> HedgeRows] : n \in 0..MaxPoints}

\* the liabilities sheet: the test schedule, and a single payment due now
LiabilitySheets == {<<TestCashFlows, TestTimes>>, << <<Rat(100, 1)>>, <<0>> >>}

\* a row of df_bonds
BondRow(name, coupon, maturity, face_value) ==
    [bond_name |-> name, coupon |-> coupon, maturity |-> maturity,
     face_value |-> face_value]

\* the bonds sheet: the chosen bond after and before another bond, a sheet
\* without the chosen bond, and a chosen bond with a DV01 below 0.00005
df_bonds_sheets ==
    {<<BondRow("bond_a", Rat(1, 10), 1, face_value_default),
       BondRow("bond_c", Rat(0, 1), 1, Rat(100, 1))>>,
     <<BondRow("bond_c", Rat(1, 20), 2, face_value_default),
       BondRow("bond_a", Rat(1, 10), 1, face_value_default)>>,
     <<BondRow("bond_a", Rat(1, 10), 1, face_value_default)>>,
     <<BondRow("bond_c", Rat(0, 1), 1, Rat(1, 2))>>}

\* the caller's record of a run of the loop over df_hedge
Run(impl, df_hedge, o) ==
    [op |-> "hedge_ratio_over_time", impl |-> impl, df_hedge |-> df_hedge,
     notional |-> o.out, start |-> o, i |-> 0, out |-> << >>,
     error |-> NoCall, done |-> FALSE]

\* the set-up that raises ends the program before the loop
SetUp(impl, df_hedge, o) ==
    IF HasRaised(o.out)
    THEN /\ ret' = [op |-> "main", impl |-> impl, df_hedge |-> df_hedge, start |-> o,
                    out |-> o.out]
         /\ UNCHANGED <<pricer, bond, hedging>>
    ELSE /\ pricer' = o.liabilities_pricer
         /\ bond' = o.bond
         /\ hedging' = o.hedging
         /\ ret' = Run(impl, df_hedge, o)

\* main.py up to the loop over df_hedge
StartHedgeRatioOverTime ==
    /\ pricer = NoObject /\ bond = NoObject /\ hedging = NoObject
    /\ Idle
    /\ \E df_hedge \in HedgePaths, l \in LiabilitySheets, df_bonds \in df_bonds_sheets :
          \E o \in {main_setup(l[1], l[2], df_bonds, df_hedge)} :
             SetUp("main", df_hedge,
                   o @@ [df_bonds |-> df_bonds,
                         sized |-> FirstNamed(df_bonds, chosen_bond_name)])
    /\ UNCHANGED <<prec, funding>>

\* main_utils.py, process_liabilities at the rate of the liabilities sheet
utils_ProcessLiabilities ==
    /\ pricer = NoObject /\ bond = NoObject /\ hedging = NoObject
    /\ Idle
    /\ \E df_hedge \in HedgePaths, l \in LiabilitySheets :
          \E o \in {utils_process_liabilities(l[1], l[2], TestRate)} :
             IF HasRaised(o.out) THEN SetUp("main_utils", df_hedge, o)
             ELSE /\ pricer' = o.liabilities_pricer
                  /\ ret' = [op |-> "process_liabilities", df_hedge |-> df_hedge,
                             out |-> o.out]
                  /\ UNCHANGED <<bond, hedging>>
    /\ UNCHANGED <<prec, funding>>

\* main_utils.py from analyze_bonds up to the loop over df_hedge
utils_StartHedgeRatioOverTime ==
    /\ ret.op = "process_liabilities"
    /\ \E df_bonds \in df_bonds_sheets :
          \E j \in 1..Len(df_bonds) :
             \E o \in {utils_setup(pricer, df_bonds, j, TestRate)} :
                SetUp("main_utils", ret.df_hedge,
                      o @@ [df_bonds |-> df_bonds, sized |-> j])
    /\ UNCHANGED <<prec, funding>>

Running == ret.op = "hedge_ratio_over_time" /\ ~ret.done /\ ret.error = NoCall

\* the objects and the trajectory after a pass of the loop body; an error
\* leaves the loop and the program
Appended(o) ==
    /\ bond' = o.bond
    /\ pricer' = o.liabilities_pricer
    /\ ret' = IF HasRaised(o.out) THEN [ret EXCEPT !.error = o.out]
              ELSE [ret EXCEPT !.i = @ + 1, !.out = Append(@, o.out)]
    /\ UNCHANGED <<prec, hedging, funding>>

\* one pass of the loop body of main.py
HedgeRow ==
    /\ Running
    /\ ret.impl = "main"
    /\ ret.i < Len(ret.df_hedge)
    /\ \E o \in {main_hedge_row(bond, pricer, hedging, ret.notional,
                                 ret.df_hedge[ret.i + 1])} :
          Appended(o)

\* one pass of the loop body of calculate_hedge_ratio_over_time
utils_HedgeRow ==
    /\ Running
    /\ ret.impl = "main_utils"
    /\ ret.i < Len(ret.df_hedge)
    /\ \E o \in {utils_hedge_row(bond, pricer, hedging, ret.notional,
                                  ret.df_hedge[ret.i + 1])} :
          Appended(o)

\* the loop has passed the last row
ReturnHedgeRatioOverTime ==
    /\ Running
    /\ ret.i = Len(ret.df_hedge)
    /\ ret' = [ret EXCEPT !.done = TRUE]
    /\ UNCHANGED <<prec, pricer, hedging, bond, funding>>

InitTrajectory ==
    /\ prec = 0
    /\ pricer = NoObject
    /\ hedging = NoObject
    /\ bond = NoObject
    /\ funding = NoObject
    /\ ret = NoCall

NextTrajectory ==
    \/ StartHedgeRatioOverTime
    \/ utils_ProcessLiabilities
    \/ utils_StartHedgeRatioOverTime
    \/ HedgeRow
    \/ utils_HedgeRow
    \/ ReturnHedgeRatioOverTime

SpecTrajectory == InitTrajectory /\ [][NextTrajectory]_vars

-----------------------------------------------------------------------------
(* Claims about the hedge ratio over time.                                 *)

InRun == ret.op = "hedge_ratio_over_time"

C15_WitnessEmpty == InRun /\ ret.done /\ ret.df_hedge = << >> /\ ret.out = << >>

\* the DV01 of the bond schedule and of the liability schedule of the run,
\* each priced by its class at the given rate: <<bond, liability>>
DV01sAt(rate) ==
    IF ret.impl = "main"
    THEN main_dv01s(<<Pricer_init(ret.start.bond.cash_flows, Bond_times(ret.start.bond), rate),
                      Pricer_init(ret.start.liabilities_pricer.cash_flows,
                                  ret.start.liabilities_pricer.times, rate)>>)
    ELSE utils_dv01s(<< <<utils_Pricer_init(ret.start.bond.cash_flows,
                                            Bond_times(ret.start.bond), rate), NoneArg>>,
                        <<utils_Pricer_init(ret.start.liabilities_pricer.cash_flows,
                                            ret.start.liabilities_pricer.times, rate), NoneArg>> >>)

\* entry k carries notional * bondDV01 / liabilityDV01 for the DV01s dv01
RatioOf(k, dv01) == FEq(ret.out[k].hedge_ratio, FDiv(FMul(ret.notional, dv01[1]), dv01[2]))

\* entry k carries the two DV01s dv01
CarriesDV01s(k, dv01) ==
    /\ {"bond_dv01", "liability_dv01"} \subseteq DOMAIN ret.out[k]
    /\ FEq(ret.out[k].bond_dv01, dv01[1])
    /\ FEq(ret.out[k].liability_dv01, dv01[2])

\* the hedge ratio of every entry is the one of its own row's rate
RatioAtOwnRate ==
    InRun => \A k \in 1..Len(ret.out) :
                (CHOOSE val \in {RatioOf(x1, x2) : x1 \in {k}, x2 \in {DV01sAt(ret.df_hedge[k].interest_rate)}} : TRUE)

\* C16: for each scenario point (day, rate) the emitted hedge ratio equals
\* notional * bondDV01 / liabilityDV01 with both DV01s evaluated at that
\* point's own rate, and the emitted bond and liability DV01s are those
\* same two values.
C16_RatioAndDV01sAtPointRate ==
    InRun => \A k \in 1..Len(ret.out) :
                (CHOOSE val \in {   RatioOf(k, dv01) /\ CarriesDV01s(k, dv01) :
                    dv01 \in {DV01sAt(ret.df_hedge[k].interest_rate)}} : TRUE)

\* one pass of the loop body of the run's file, from the objects o
HedgeStep(o, row) ==
    IF ret.impl = "main"
    THEN main_hedge_row(o.bond, o.liabilities_pricer, o.hedging, ret.notional, row)
    ELSE utils_hedge_row(o.bond, o.liabilities_pricer, o.hedging, ret.notional, row)

\* the rows of path from row i on, run from the objects o: the row reached
\* (the last one unless an earlier row raises) and what it emits
RECURSIVE EntryOn(_, _, _)
EntryOn(o, path, i) ==
    (CHOOSE val \in { IF i = Len(path) \/ HasRaised(o1.out) THEN [at |-> i, out |-> o1.out]
                      ELSE EntryOn(o1, path, i + 1) :
        o1 \in {HedgeStep(o, path[i])}} : TRUE)

\* the paths that end in the row: the row alone and after each other row
PathsTo(row) == {<<row>>} \cup {<<r, row>> : r \in HedgeRows}

\* the same day and the same values, field by field
SameEntry(a, b) ==
    /\ DOMAIN a = DOMAIN b
    /\ a.days_from_now = b.days_from_now
    /\ \A f \in DOMAIN a \ {"days_from_now"} : FEq(a[f], b[f])

\* C17: each scenario point is processed independently: the entry emitted
\* for a point depends only on that point, the schedules and the notional,
\* so the entry last emitted, after the rows before it, is the entry its row
\* emits at the head of a path and after any other row that does not raise.
C17_PointsIndependent ==
    InRun /\ ret.out # << >> /\ ~ret.done
    => \A path \in PathsTo(ret.df_hedge[Len(ret.out)]) :
          (CHOOSE val \in {e.at = Len(path) => SameEntry(ret.out[Len(ret.out)], e.out) :
              e \in {EntryOn(ret.start, path, 1)}} : TRUE)

\* main.py has emitted the entry of a second row whose rate differs from the
\* rate the first row left in the liabilities pricer
C17_Witness ==
    /\ InRun /\ ret.impl = "main"
    /\ Len(ret.out) = 2
    /\ ~FEq(ret.df_hedge[1].interest_rate, ret.df_hedge[2].interest_rate)

\* C18: computing the trajectory never mutates the liabilities pricer: after
\* any number of scenario points its stored interest rate, its cash flows
\* and its times are the ones it had before the loop started.
C18_PricerNotMutated ==
    InRun => /\ pricer.cash_flows = ret.start.liabilities_pricer.cash_flows
             /\ pricer.times = ret.start.liabilities_pricer.times
             /\ FEq(pricer.interest_rate, ret.start.liabilities_pricer.interest_rate)

\* the rate at which the liability and the bond were priced to size the notional
InceptionRate == ret.start.liabilities_pricer.interest_rate

\* C27: the notional is sized from the day-0 DV01s of the liability and the
\* bond, so at every scenario point whose rate is the inception rate (day 0
\* in particular) the emitted hedge ratio is the hedge percentage (0.5)
\* exactly.
C27_RatioAtInceptionIsPercentage ==
    InRun => \A k \in 1..Len(ret.out) :
                FEq(ret.df_hedge[k].interest_rate, InceptionRate)
                => FEq(ret.out[k].hedge_ratio, hedge_percentage)

\* the row of df_bonds whose DV01 sized the notional of the run
SizedRow == ret.start.df_bonds[ret.start.sized]

\* C28: in every run the bond whose DV01 is recomputed at each scenario
\* point has the terms (coupon, maturity, face value) of the bond whose DV01
\* sized the notional, whichever position the chosen bond has in df_bonds.
C28_TrajectoryOfSizedBond ==
    InRun => /\ FEq(bond.coupon, SizedRow.coupon)
             /\ bond.maturity = SizedRow.maturity
             /\ FEq(bond.face_value, SizedRow.face_value)

\* the set-up has ended in the ValueError of the Hedging constructor: the
\* liabilities pricer and the bonds exist, the Hedging object does not
SizingFailed ==
    /\ ret.op = "main"
    /\ ret.out = Raised("ValueError")
    /\ ret.start.liabilities_pricer # NoObject
    /\ ret.start.bond # NoObject
    /\ ret.start.hedging = NoObject

\* the DV01 that the run's file computes for the bond of the row r of
\* df_bonds at the rate
ComputedDv01(r, rate) ==
    IF ret.impl = "main"
    THEN main_dv01s(<<Bond_init(r.bond_name, r.coupon, r.maturity, rate, r.face_value).pricer>>)[1]
    ELSE utils_dv01s(<< <<utils_bond_pricer(utils_Bond_init(r.bond_name, r.coupon, r.maturity,
                                                           rate, r.face_value), rate),
                          NoneArg>> >>)[1]

\* C29: sizing the notional for a bond fails with the bond-DV01-is-zero
\* error only when the computed DV01 of that bond is zero; a bond with a
\* small but non-zero DV01 is sized from its computed DV01.
C29_SizedFromComputedDv01 ==
    /\ SizingFailed
       => VIsZero(ComputedDv01(SizedRow, ret.start.liabilities_pricer.interest_rate))
    /\ InRun
       => FEq(ret.start.hedging.bond_dv01,
              ComputedDv01(SizedRow, ret.start.liabilities_pricer.interest_rate))

\* the row at which the loop over df_hedge has raised
FailedRow == ret.df_hedge[ret.i + 1]

\* the DV01 of the liabilities at the rate, as the run's file asks for it
LiabilityDv01At(rate) ==
    IF ret.impl = "main"
    THEN Pricer_dv01([ret.start.liabilities_pricer EXCEPT !.interest_rate = rate],
                     delta_r_default)
    ELSE utils_Pricer_dv01(ret.start.liabilities_pricer, rate, delta_r_default)

\* C30: negative rates above -1 are inside the valuation domain: for every
\* scenario point with a rate r such that -1 < r - bump (r < 0 included) and
\* a non-zero liability DV01 the trajectory emits an entry instead of
\* aborting with an error; the bond is not rejected at a rate at which the
\* liability is accepted.
C30_NegativeRatesEmit ==
    (InRun /\ ret.error # NoCall)
    => ~(/\ FLt(Rat(-1, 1), FSub(FailedRow.interest_rate, delta_r_default))
         /\ ~VIsZero(LiabilityDv01At(FailedRow.interest_rate)))

====
